---------------------------- MODULE Spec2Model ----------------------------
(***************************************************************************)
(* A model of the DLFUCache repository: the decaying-LFU look-aside cache  *)
(* (DLFUCache.py) over its indexed priority queues (PQueue.py: the binary  *)
(* heap PQueueHeapq and the linked-list PQueueLRU), and the ARC cache      *)
(* (ARCCache.py).                                                          *)
(*                                                                         *)
(* Numbers.  The Python code computes in floats.  The model computes in    *)
(* exact rationals <<n, d>> (d > 0, lowest terms); <<1, 0>> is +inf and    *)
(* <<0, 0>> is NaN.  The finite decay constant is chosen so that           *)
(* M = (T*size + 1)/(T*size) is 2: every score is then a short sum of      *)
(* powers of two and float arithmetic is exact on it.                      *)
(*                                                                         *)
(* Objects.  A cache object is a record of its attributes.  A queue entry  *)
(* (a Python list shared by the queue and the key->entry dict) is a record *)
(* that carries, in field r, the set of dict keys bound to that object:    *)
(* the dict is read off the entries, and an entry that moves inside the    *)
(* heap takes its dict bindings with it, as a reference does.              *)
(***************************************************************************)
EXTENDS Integers, Sequences, FiniteSets, TLC

\* ------------------------------------------------------------------ bounds
\* Keys are 1..NumKeys, values 1..NumVals.
NumKeys == 3
NumVals == 2
\* A run performs at most MaxOps get/contains/set operations.
MaxOps == 4
\* The runs of the LRU and of the LFU configuration alone are longer.
MaxOpsLRU == 6
MaxOpsLFU == 5
\* Stand-in for the renormalisation threshold 1.0e100 (DLFUCache.py:296),
\* scaled down so that a bounded run reaches it.
RenormThreshold == 4

Keys == 1..NumKeys
Vals == 1..NumVals

\* ----------------------------------------------------------------- numbers
RECURSIVE GCD(_, _)
GCD(a, b) == IF b = 0 THEN a ELSE GCD(b, a % b)

Abs(x) == IF x < 0 THEN -x ELSE x

\* The rational n/d in lowest terms, d > 0.
Rat(n, d) ==
  LET s == IF d < 0 THEN -1 ELSE 1
      g == GCD(Abs(n), Abs(d))
  IN  <<(s * n) \div g, (s * d) \div g>>

Num(i) == <<i, 1>>
Zero == <<0, 1>>
One == <<1, 1>>
inf == <<1, 0>>
nan == <<0, 0>>

IsNaN(a) == a = nan
IsFinite(a) == a[2] # 0

\* Sums are taken over the least common denominator, which keeps the
\* intermediate integers small.
CommonDen(a, b) ==
  IF a[2] = 0 \/ b[2] = 0 THEN 1 ELSE GCD(a[2], b[2])
Add(a, b) ==
  LET g == CommonDen(a, b)
  IN  Rat(a[1] * (b[2] \div g) + b[1] * (a[2] \div g), (a[2] \div g) * b[2])
Sub(a, b) ==
  LET g == CommonDen(a, b)
  IN  Rat(a[1] * (b[2] \div g) - b[1] * (a[2] \div g), (a[2] \div g) * b[2])
Mul(a, b) == Rat(a[1] * b[1], a[2] * b[2])
Div(a, b) == Rat(a[1] * b[2], a[2] * b[1])
Sq(a) == Mul(a, a)

\* Float comparisons: every comparison with NaN is false.  (+inf occurs only
\* as the value of T and M, never as an operand of a comparison.)
Lt(a, b) == ~IsNaN(a) /\ ~IsNaN(b) /\ a[1] * b[2] < b[1] * a[2]
Le(a, b) == ~IsNaN(a) /\ ~IsNaN(b) /\ a[1] * b[2] <= b[1] * a[2]
Ge(a, b) == Le(b, a)
Gt(a, b) == Lt(b, a)

\* Python truthiness of a float: anything but 0.0.
Truthy(a) == a # Zero

\* ----------------------------------------------- PQueue.py: the heap functions
\* A heap is a Python list: slot pos (0-based, as in the code) of heap h is
\* h[pos + 1].  An entry [value, key, index] is the record [v, k, i, r].
At(h, pos) == h[pos + 1]
Put(h, pos, e) == [h EXCEPT ![pos + 1] = e]

\* The loop of _shiftup: the hole at pos climbs while entry is below the parent.
RECURSIVE shiftup_loop(_, _, _)
shiftup_loop(heap, entry, pos) ==
  LET parentpos == (pos - 1) \div 2
      parent == At(heap, parentpos)
  IN  IF pos > 0 /\ ~Ge(entry.v, parent.v)
      THEN shiftup_loop(Put(heap, pos, [parent EXCEPT !.i = pos]), entry, parentpos)
      ELSE [h |-> Put(heap, pos, [entry EXCEPT !.i = pos]), pos |-> pos]

\* A faulty _shiftup: the entry stays in the slot it is in.
shiftup_Stay(heap, s) == [h |-> heap, pos |-> s]

\* _shiftup(heap, entry), the entry being the object in slot s.
shiftup(heap, s) == shiftup_loop(heap, At(heap, s), At(heap, s).i)

\* The loop of _shiftdn: the hole at pos sinks while entry is above the
\* smaller child.
RECURSIVE shiftdn_loop(_, _, _)
shiftdn_loop(heap, entry, pos) ==
  LET n == Len(heap)
      leftpos == 2 * pos + 1
      rightpos == leftpos + 1
      childpos == IF rightpos < n /\ Gt(At(heap, leftpos).v, At(heap, rightpos).v)
                  THEN rightpos ELSE leftpos
      child == At(heap, childpos)
  IN  IF leftpos < n /\ ~Le(entry.v, child.v)
      THEN shiftdn_loop(Put(heap, pos, [child EXCEPT !.i = pos]), entry, childpos)
      ELSE [h |-> Put(heap, pos, [entry EXCEPT !.i = pos]), pos |-> pos]

\* _shiftdn(heap, entry), the entry being the object in slot s.
shiftdn(heap, s) == shiftdn_loop(heap, At(heap, s), At(heap, s).i)

\* ------------------------------------------------- PQueue.py: PQueueHeapq
\* PQueueHeapq._push: [h, pos], pos the slot the new entry ends in.
Heapq_push(heap, key, value) ==
  shiftup(Append(heap, [v |-> value, k |-> key, i |-> Len(heap), r |-> {}]), Len(heap))

\* PQueueHeapq._pull(entry), the entry being the object in slot s (slot 0 for
\* _pull()): [h, key, value].
Heapq_pull(heap, s) ==
  LET entry == At(heap, s)
      lastpos == Len(heap) - 1
      last == At(heap, lastpos)
      popped == SubSeq(heap, 1, lastpos)
      pos == entry.i
      moved == Put(popped, pos, [last EXCEPT !.i = pos])
  IN  [h |-> IF lastpos # s
             THEN IF Lt(entry.v, last.v) THEN shiftdn(moved, pos).h
                                         ELSE shiftup(moved, pos).h
             ELSE popped,
       key |-> entry.k, value |-> entry.v]

\* PQueueHeapq._swap(key, value, oldentry), oldentry being the object in slot s
\* (slot 0 when not given): [h, pos, oldkey, oldvalue].
Heapq_swap(heap, key, value, s) ==
  LET entry == At(heap, s)
      set == Put(heap, s, [entry EXCEPT !.v = value, !.k = key])
      moved == IF Lt(entry.v, value) THEN shiftdn(set, s) ELSE shiftup(set, s)
  IN  [h |-> moved.h, pos |-> moved.pos, oldkey |-> entry.k, oldvalue |-> entry.v]

\* ---------------------------------- PQueue.py: PQueueLRU over CDList
\* The circular list is the sequence of its entries from sentinel[2] (head) to
\* sentinel[3] (tail); an entry [value, key, next, prev] is the record
\* [v, k, r].  PQueueLRU never moves the cursor off the sentinel.

\* A faulty LRU_push: the entry is inserted after the sentinel, at the head.
LRU_push_Head(list, key, value) ==
  [h |-> <<[v |-> value, k |-> key, r |-> {}]>> \o list, pos |-> 0]
\* PQueueLRU._push: CDList.insert(entry) before the sentinel, i.e. at the tail.
LRU_push(list, key, value) ==
  [h |-> Append(list, [v |-> value, k |-> key, r |-> {}]), pos |-> Len(list)]

\* A faulty LRU_pull: the head is removed whatever entry is asked for.
LRU_pull_Head(list, s) ==
  [h |-> Tail(list), key |-> At(list, s).k, value |-> At(list, s).v]

\* PQueueDList._pull -> CDList.pull(entry) -> remove(entry); s is the entry's
\* place in the list (0 for the head).
LRU_pull(list, s) ==
  [h |-> SubSeq(list, 1, s) \o SubSeq(list, s + 2, Len(list)),
   key |-> At(list, s).k, value |-> At(list, s).v]

\* PQueueVect._swap, which PQueueLRU inherits: _pull(oldentry) then _push.
LRU_swap(list, key, value, s) ==
  LET pulled == LRU_pull(list, s)
      pushed == LRU_push(pulled.h, key, value)
  IN  [h |-> pushed.h, pos |-> pushed.pos, oldkey |-> pulled.key, oldvalue |-> pulled.value]

\* ------------------------------------- PQueue.py: PQueueVect (the mapping)
\* A queue object is [kind, queue]; kind selects the subclass's _push, _pull,
\* _swap.  self.data, the dict key -> entry, is the r fields of the entries.
NewPQ(kind) == [kind |-> kind, queue |-> <<>>]

\* The keys of self.data.
PQ_keys(pq) == UNION {pq.queue[j].r : j \in DOMAIN pq.queue}
\* key in pq (Mapping.__contains__ over PQueueVect.__getitem__).
PQ_contains(pq, key) == key \in PQ_keys(pq)
\* PQueueVect.__len__
PQ_len(pq) == Cardinality(PQ_keys(pq))
\* The slot (0-based) of the entry object self.data[key].
PQ_ref(pq, key) == (CHOOSE j \in DOMAIN pq.queue : key \in pq.queue[j].r) - 1
\* A faulty Unbind: the old key stays bound.
Unbind_Forgotten(q, key) == q
\* del d[key]
Unbind(q, key) == [j \in DOMAIN q |-> [q[j] EXCEPT !.r = @ \ {key}]]
\* d[key] = entry, the entry being the object in slot pos.
Bind(q, pos, key) ==
  [j \in DOMAIN q |-> [q[j] EXCEPT !.r = IF j = pos + 1 THEN @ \cup {key} ELSE @ \ {key}]]

push(pq, key, value) ==
  IF pq.kind = "heapq" THEN Heapq_push(pq.queue, key, value)
                       ELSE LRU_push(pq.queue, key, value)
pull(pq, s) ==
  IF pq.kind = "heapq" THEN Heapq_pull(pq.queue, s) ELSE LRU_pull(pq.queue, s)
swap(pq, key, value, s) ==
  IF pq.kind = "heapq" THEN Heapq_swap(pq.queue, key, value, s)
                       ELSE LRU_swap(pq.queue, key, value, s)

\* PQueueVect.__getitem__
PQ_getitem(pq, key) == At(pq.queue, PQ_ref(pq, key)).v

\* PQueueVect.__setitem__
PQ_setitem(pq, key, value) ==
  LET res == IF PQ_contains(pq, key) THEN swap(pq, key, value, PQ_ref(pq, key))
                                     ELSE push(pq, key, value)
  IN  [pq EXCEPT !.queue = Bind(res.h, res.pos, key)]

\* PQueueVect.peekitem(): _peek() of the first entry, [key, value].
PQ_peekitem(pq) == [key |-> At(pq.queue, 0).k, value |-> At(pq.queue, 0).v]

\* PQueueVect.popitem(key): _pull(d.pop(key)), [pq, key, value].
PQ_popitem(pq, key) ==
  LET s == PQ_ref(pq, key)
      res == pull([pq EXCEPT !.queue = Unbind(pq.queue, key)], s)
  IN  [pq |-> [pq EXCEPT !.queue = res.h], key |-> res.key, value |-> res.value]

\* A faulty PQ_swapitem: the last entry of the queue is replaced, not the first.
PQ_swapitem_Last(pq, key, value) ==
  LET res == swap(pq, key, value, Len(pq.queue) - 1)
  IN  [pq |-> [pq EXCEPT !.queue = Bind(Unbind(res.h, res.oldkey), res.pos, key)],
       oldkey |-> res.oldkey, oldvalue |-> res.oldvalue]
\* PQueueVect.swapitem(key, value): _swap on the first entry, del d[oldkey],
\* d[key] = entry; [pq, oldkey, oldvalue].
PQ_swapitem(pq, key, value) ==
  LET res == swap(pq, key, value, 0)
  IN  [pq |-> [pq EXCEPT !.queue = Bind(Unbind(res.h, res.oldkey), res.pos, key)],
       oldkey |-> res.oldkey, oldvalue |-> res.oldvalue]

\* A faulty scale: the scores are left as they are.
PQ_scale_Skip(pq, mult) == pq

\* PQueueVect.scale(mult): for e in self.queue: e[0] *= mult.
PQ_scale(pq, mult) ==
  [pq EXCEPT !.queue = [j \in DOMAIN pq.queue |-> [pq.queue[j] EXCEPT !.v = Mul(@, mult)]]]

\* ------------------------------------------------------ DLFUCache.py
\* A DLFUCache object is the record of its attributes; data is a function
\* from the cached keys to their values.

\* A faulty DictDel: the value of a removed key is kept.
DictDel_Forgotten(d, k) == d
\* A faulty DictSet: a key that has a value keeps it.
DictSet_KeepOld(d, k, v) ==
  [x \in DOMAIN d \cup {k} |-> IF x \in DOMAIN d THEN d[x] ELSE v]
\* dict without key k (del d[k], d.pop(k)) and with k bound to v (d[k] = v).
DictDel(d, k) == [x \in DOMAIN d \ {k} |-> d[x]]
DictSet(d, k, v) == [x \in DOMAIN d \cup {k} |-> IF x = k THEN v ELSE d[x]]
EmptyDict == [x \in {} |-> 0]

\* A faulty reset_stats: the hit counters are not reset.
DLFU_reset_stats_KeepHits(c) ==
  [c EXCEPT !.get_count = 0, !.set_count = 0, !.del_count = 0]

\* DLFUCache.reset_stats
DLFU_reset_stats(c) ==
  [c EXCEPT !.get_count = 0, !.set_count = 0, !.del_count = 0,
            !.hit_count = 0, !.mhit_count = 0]

\* A faulty clear: C keeps the value it has grown to.
DLFU_clear_KeepC(c) ==
  DLFU_reset_stats(
    [c EXCEPT !.data = EmptyDict,
              !.cqueue = NewPQ(c.cqueue.kind), !.mqueue = NewPQ(c.mqueue.kind),
              !.count_sum = Zero, !.mcount_sum = Zero,
              !.count_sum2 = Zero, !.mcount_sum2 = Zero])

\* DLFUCache.clear
DLFU_clear(c) ==
  DLFU_reset_stats(
    [c EXCEPT !.data = EmptyDict,
              !.cqueue = NewPQ(c.cqueue.kind), !.mqueue = NewPQ(c.mqueue.kind),
              !.C = One, !.count_sum = Zero, !.mcount_sum = Zero,
              !.count_sum2 = Zero, !.mcount_sum2 = Zero])

\* DLFUCache.__init__(size, msize, T)
DLFU_init(size, msize, T) ==
  LET M == IF T = Zero THEN inf
           ELSE IF T = inf THEN One
           ELSE Div(Add(Mul(T, Num(size)), One), Mul(T, Num(size)))
      PQueue == IF T = Zero THEN "lru" ELSE "heapq"
  IN  DLFU_clear(
        [cls |-> "DLFUCache", size |-> size, msize |-> msize, T |-> T, M |-> M,
         data |-> EmptyDict, cqueue |-> NewPQ(PQueue), mqueue |-> NewPQ(PQueue),
         C |-> One, count_sum |-> Zero, mcount_sum |-> Zero,
         count_sum2 |-> Zero, mcount_sum2 |-> Zero,
         get_count |-> 0, set_count |-> 0, del_count |-> 0,
         hit_count |-> 0, mhit_count |-> 0])

\* A faulty cqueue_min: the minimum of a full cqueue is not looked at.
cqueue_min_Zero(c) == Zero
\* DLFUCache._cqueue_min
cqueue_min(c) ==
  IF c.size = PQ_len(c.cqueue) THEN PQ_peekitem(c.cqueue).value ELSE Zero

\* A faulty _mqueue_min: a full shadow queue reports the minimum 0.0, so a
\* miss is admitted whatever the scores in the queue are.
mqueue_min_Floor(c) == IF c.msize # 0 THEN Zero ELSE nan

\* DLFUCache._mqueue_min
mqueue_min(c) ==
  IF c.msize # 0
  THEN IF c.msize = PQ_len(c.mqueue) THEN PQ_peekitem(c.mqueue).value ELSE Zero
  ELSE nan

\* A faulty _inccqueue: the score grows by 1.0 whatever C is.
inccqueue_AddOne(c, key) ==
  LET old_count == PQ_getitem(c.cqueue, key)
      new_count == Add(old_count, One)
  IN  [c EXCEPT !.cqueue = PQ_setitem(c.cqueue, key, new_count),
                !.count_sum = Add(@, One),
                !.count_sum2 = Add(@, Sub(Sq(new_count), Sq(old_count)))]

\* DLFUCache._inccqueue
inccqueue(c, key) ==
  LET p == IF Truthy(c.T) THEN c.C ELSE Zero
      old_count == PQ_getitem(c.cqueue, key)
      new_count == Add(old_count, p)
  IN  [c EXCEPT !.cqueue = PQ_setitem(c.cqueue, key, new_count),
                !.count_sum = Add(@, p),
                !.count_sum2 = Add(@, Sub(Sq(new_count), Sq(old_count)))]

\* DLFUCache._incmqueue
incmqueue(c, key) ==
  LET p == IF Truthy(c.T) THEN c.C ELSE Zero
      old_count == PQ_getitem(c.mqueue, key)
      new_count == Add(old_count, p)
  IN  [c EXCEPT !.mqueue = PQ_setitem(c.mqueue, key, new_count),
                !.mcount_sum = Add(@, p),
                !.mcount_sum2 = Add(@, Sub(Sq(new_count), Sq(old_count)))]

\* A faulty _setmqueue: the entry is dropped, whatever room the queue has.
setmqueue_Drop(c, k, p0) == c

\* DLFUCache._setmqueue
setmqueue(c, k, p0) ==
  LET p == IF Truthy(c.T) THEN p0 ELSE Zero
      swapped == PQ_swapitem(c.mqueue, k, p)
      minp == swapped.oldvalue
  IN  IF PQ_len(c.mqueue) < c.msize
      THEN [c EXCEPT !.mqueue = PQ_setitem(c.mqueue, k, p),
                     !.mcount_sum = Add(@, p),
                     !.mcount_sum2 = Add(@, Sq(p))]
      ELSE IF Le(mqueue_min(c), p)
      THEN [c EXCEPT !.mqueue = swapped.pq,
                     !.mcount_sum = Add(@, Sub(p, minp)),
                     !.mcount_sum2 = Add(@, Sub(Sq(p), Sq(minp)))]
      ELSE c

\* A faulty _setcqueue: a full queue admits only a score above its minimum.
setcqueue_Strict(c, k, p0) ==
  LET p == IF Truthy(c.T) THEN p0 ELSE Zero
      swapped == PQ_swapitem(c.cqueue, k, p)
      mink == swapped.oldkey
      minp == swapped.oldvalue
      cascaded == setmqueue([c EXCEPT !.cqueue = swapped.pq], mink, minp)
  IN  IF PQ_len(c.cqueue) < c.size
      THEN [c EXCEPT !.cqueue = PQ_setitem(c.cqueue, k, p),
                     !.count_sum = Add(@, p),
                     !.count_sum2 = Add(@, Sq(p))]
      ELSE IF Lt(cqueue_min(c), p)
      THEN [cascaded EXCEPT !.count_sum = Add(@, Sub(p, minp)),
                            !.count_sum2 = Add(@, Sub(Sq(p), Sq(minp))),
                            !.data = DictDel(@, mink)]
      ELSE c

\* DLFUCache._setcqueue
setcqueue(c, k, p0) ==
  LET p == IF Truthy(c.T) THEN p0 ELSE Zero
      swapped == PQ_swapitem(c.cqueue, k, p)
      mink == swapped.oldkey
      minp == swapped.oldvalue
      cascaded == setmqueue([c EXCEPT !.cqueue = swapped.pq], mink, minp)
  IN  IF PQ_len(c.cqueue) < c.size
      THEN [c EXCEPT !.cqueue = PQ_setitem(c.cqueue, k, p),
                     !.count_sum = Add(@, p),
                     !.count_sum2 = Add(@, Sq(p))]
      ELSE IF Le(cqueue_min(c), p)
      THEN [cascaded EXCEPT !.count_sum = Add(@, Sub(p, minp)),
                            !.count_sum2 = Add(@, Sub(Sq(p), Sq(minp))),
                            !.data = DictDel(@, mink)]
      ELSE c

\* DLFUCache._movcqueue, for a key of cqueue
movcqueue(c, k0) ==
  LET popped == PQ_popitem(c.cqueue, k0)
      k == popped.key
      p == popped.value
  IN  setmqueue([c EXCEPT !.cqueue = popped.pq,
                          !.count_sum = Sub(@, p),
                          !.count_sum2 = Sub(@, Sq(p))], k, p)

\* A faulty _movmqueue: the entry is never moved up.
movmqueue_Never(c, k0) == c

\* DLFUCache._movmqueue
movmqueue(c, k0) ==
  LET popped == PQ_popitem(c.mqueue, k0)
      k == popped.key
      p == popped.value
  IN  IF Le(cqueue_min(c), PQ_getitem(c.mqueue, k0))
      THEN setcqueue([c EXCEPT !.mqueue = popped.pq,
                               !.mcount_sum = Sub(@, p),
                               !.mcount_sum2 = Sub(@, Sq(p))], k, p)
      ELSE c

\* A faulty _decayall: C grows without ever being reset.
decayall_NoReset(c) == IF ~Truthy(c.T) THEN c ELSE [c EXCEPT !.C = Mul(c.C, c.M)]

\* DLFUCache._decayall
decayall(c) ==
  LET grown == Mul(c.C, c.M)
      decay == Div(One, grown)
      decay2 == Mul(decay, decay)
  IN  IF ~Truthy(c.T) THEN c
      ELSE IF Ge(grown, Num(RenormThreshold))
      THEN [c EXCEPT !.cqueue = PQ_scale(@, decay),
                     !.mqueue = PQ_scale(@, decay),
                     !.count_sum = Mul(@, decay),
                     !.mcount_sum = Mul(@, decay),
                     !.count_sum2 = Mul(@, decay2),
                     !.mcount_sum2 = Mul(@, decay2),
                     !.C = One]
      ELSE [c EXCEPT !.C = grown]

\* What an operation hands back: a value, None, a bool (contains), or the
\* KeyError it raised.
RetValue(v) == <<"value", v>>
RetNone == <<"None", 0>>
RetBool(b) == <<"bool", IF b THEN 1 ELSE 0>>
KeyError == <<"KeyError", 0>>

\* A __getitem__ that moves a shadow key it reads up to the primary queue.
DLFU_getitem_Promote(c, key) ==
  LET counted == [c EXCEPT !.get_count = @ + 1]
      touched ==
        IF PQ_contains(c.cqueue, key)
        THEN inccqueue([counted EXCEPT !.hit_count = @ + 1], key)
        ELSE IF PQ_contains(c.mqueue, key)
        THEN movmqueue(incmqueue([counted EXCEPT !.mhit_count = @ + 1], key), key)
        ELSE setmqueue(counted, key, c.C)
  IN  [c |-> decayall(touched),
       ret |-> IF key \in DOMAIN c.data THEN RetValue(c.data[key]) ELSE KeyError]

\* A __getitem__ that books a metadata hit as a cache hit.
DLFU_getitem_MetaAsHit(c, key) ==
  LET counted == [c EXCEPT !.get_count = @ + 1]
      touched ==
        IF PQ_contains(c.cqueue, key)
        THEN inccqueue([counted EXCEPT !.hit_count = @ + 1], key)
        ELSE IF PQ_contains(c.mqueue, key)
        THEN incmqueue([counted EXCEPT !.hit_count = @ + 1], key)
        ELSE setmqueue(counted, key, c.C)
  IN  [c |-> decayall(touched),
       ret |-> IF key \in DOMAIN c.data THEN RetValue(c.data[key]) ELSE KeyError]

\* DLFUCache.__getitem__: [c, ret]
DLFU_getitem(c, key) ==
  LET counted == [c EXCEPT !.get_count = @ + 1]
      touched ==
        IF PQ_contains(c.cqueue, key)
        THEN inccqueue([counted EXCEPT !.hit_count = @ + 1], key)
        ELSE IF PQ_contains(c.mqueue, key)
        THEN incmqueue([counted EXCEPT !.mhit_count = @ + 1], key)
        ELSE setmqueue(counted, key, c.C)
  IN  [c |-> decayall(touched),
       ret |-> IF key \in DOMAIN c.data THEN RetValue(c.data[key]) ELSE KeyError]

\* A __setitem__ that counts the set of a cached key as an access to it.
DLFU_setitem_Touch(c, key, value) ==
  LET counted == [c EXCEPT !.set_count = @ + 1]
      placed ==
        IF PQ_contains(c.mqueue, key) THEN movmqueue(counted, key)
        ELSE IF ~PQ_contains(c.cqueue, key) THEN setcqueue(counted, key, c.C)
        ELSE inccqueue(counted, key)
  IN  [c |-> IF PQ_contains(placed.cqueue, key)
             THEN [placed EXCEPT !.data = DictSet(@, key, value)]
             ELSE placed,
       ret |-> RetNone]

\* DLFUCache.__setitem__: [c, ret]
DLFU_setitem(c, key, value) ==
  LET counted == [c EXCEPT !.set_count = @ + 1]
      placed ==
        IF PQ_contains(c.mqueue, key) THEN movmqueue(counted, key)
        ELSE IF ~PQ_contains(c.cqueue, key) THEN setcqueue(counted, key, c.C)
        ELSE counted
  IN  [c |-> IF PQ_contains(placed.cqueue, key)
             THEN [placed EXCEPT !.data = DictSet(@, key, value)]
             ELSE placed,
       ret |-> RetNone]

\* DLFUCache.__delitem__: [c, ret]; cqueue.popitem(key) raises KeyError, before
\* anything is changed, for a key that is not in cqueue.
DLFU_delitem(c, key) ==
  IF ~PQ_contains(c.cqueue, key) THEN [c |-> c, ret |-> KeyError]
  ELSE IF key \notin DOMAIN c.data THEN [c |-> movcqueue(c, key), ret |-> KeyError]
  ELSE [c |-> [movcqueue(c, key) EXCEPT !.data = DictDel(@, key)], ret |-> RetNone]

\* ------------------------------------------------------- ARCCache.py
\* An OrderedDict is the sequence of its <<key, value>> items in insertion
\* order; the ghost lists b1, b2 hold the value None, written 0.
OD_keys(od) == {od[j][1] : j \in DOMAIN od}
OD_has(od, key) == key \in OD_keys(od)
OD_index(od, key) == CHOOSE j \in DOMAIN od : od[j][1] = key
OD_get(od, key) == od[OD_index(od, key)][2]
\* A faulty od.pop(key): the item is read but not removed.
OD_pop_Keep(od, key) == od

\* od.pop(key)
OD_pop(od, key) ==
  SubSeq(od, 1, OD_index(od, key) - 1) \o SubSeq(od, OD_index(od, key) + 1, Len(od))
\* od[key] = value: a present key keeps its place, a new key goes to the end.
OD_set(od, key, value) ==
  IF OD_has(od, key) THEN [od EXCEPT ![OD_index(od, key)] = <<key, value>>]
                     ELSE Append(od, <<key, value>>)
\* A faulty od.popitem(False): the oldest item is read but not removed.
OD_popfirst_Keep(od) == od

\* od.popitem(False) removes the oldest item.
OD_popfirst(od) == Tail(od)

\* ARCCache.reset_stats
ARC_reset_stats(a) ==
  [a EXCEPT !.get_count = 0, !.set_count = 0, !.del_count = 0,
            !.hit_count = 0, !.mhit_count = 0]

\* ARCCache.clear
ARC_clear(a) ==
  ARC_reset_stats([a EXCEPT !.p = 0, !.t1 = <<>>, !.b1 = <<>>, !.t2 = <<>>, !.b2 = <<>>])

\* ARCCache.__init__(size)
ARC_init(size) ==
  ARC_reset_stats(
    [cls |-> "ARCCache", size |-> size, p |-> 0,
     t1 |-> <<>>, b1 |-> <<>>, t2 |-> <<>>, b2 |-> <<>>,
     get_count |-> 0, set_count |-> 0, del_count |-> 0,
     hit_count |-> 0, mhit_count |-> 0])

Min(x, y) == IF x < y THEN x ELSE y
Max(x, y) == IF x > y THEN x ELSE y

\* A faulty _replace: a key of B2 gets no say, T1 gives way only when it is
\* longer than p or T2 is empty.
replace_NoB2Rule(a, key) ==
  IF Len(a.t1) + Len(a.t2) < a.size THEN a
  ELSE IF Len(a.t1) > a.p \/ a.t2 = <<>>
  THEN [a EXCEPT !.t1 = OD_popfirst(@), !.b1 = OD_set(@, a.t1[1][1], 0)]
  ELSE [a EXCEPT !.t2 = OD_popfirst(@), !.b2 = OD_set(@, a.t2[1][1], 0)]

\* A faulty _replace: nothing is evicted.
replace_NoEvict(a, key) == a

\* ARCCache._replace
replace(a, key) ==
  IF Len(a.t1) + Len(a.t2) < a.size THEN a
  ELSE IF \/ Len(a.t1) > a.p
          \/ (0 < Len(a.t1) /\ Len(a.t1) = a.p /\ OD_has(a.b2, key))
          \/ a.t2 = <<>>
  THEN [a EXCEPT !.t1 = OD_popfirst(@), !.b1 = OD_set(@, a.t1[1][1], 0)]
  ELSE [a EXCEPT !.t2 = OD_popfirst(@), !.b2 = OD_set(@, a.t2[1][1], 0)]

\* A faulty __getitem__: a hit is counted but the key stays where it is.
ARC_getitem_NoMove(a, key) ==
  LET counted == [a EXCEPT !.get_count = @ + 1]
      value == IF OD_has(a.t1, key) THEN OD_get(a.t1, key) ELSE OD_get(a.t2, key)
  IN  IF ~OD_has(a.t1, key) /\ ~OD_has(a.t2, key) THEN [c |-> counted, ret |-> KeyError]
      ELSE [c |-> [counted EXCEPT !.hit_count = @ + 1], ret |-> RetValue(value)]

\* ARCCache.__getitem__: [c, ret]; t2.pop(key) raises KeyError for a key in
\* neither t1 nor t2, after get_count was incremented.
ARC_getitem(a, key) ==
  LET counted == [a EXCEPT !.get_count = @ + 1]
      value == IF OD_has(a.t1, key) THEN OD_get(a.t1, key) ELSE OD_get(a.t2, key)
      popped == IF OD_has(a.t1, key) THEN [counted EXCEPT !.t1 = OD_pop(@, key)]
                                     ELSE [counted EXCEPT !.t2 = OD_pop(@, key)]
  IN  IF ~OD_has(a.t1, key) /\ ~OD_has(a.t2, key) THEN [c |-> counted, ret |-> KeyError]
      ELSE [c |-> [popped EXCEPT !.hit_count = @ + 1,
                                 !.t2 = OD_set(popped.t2, key, value)],
            ret |-> RetValue(value)]

\* A faulty __setitem__: a ghost hit moves p by one, whatever the lengths of
\* the ghost lists.
ARC_setitem_StepOne(a, key, value) ==
  LET counted == [a EXCEPT !.set_count = @ + 1]
      b1hit == [counted EXCEPT !.mhit_count = @ + 1, !.p = Min(a.size, a.p + 1)]
      b2hit == [counted EXCEPT !.mhit_count = @ + 1, !.p = Max(0, a.p - 1)]
      cold == replace(counted, key)
      total == Len(cold.b1) + Len(cold.t1) + Len(cold.t2) + Len(cold.b2)
  IN  IF OD_has(a.t1, key)
      THEN [c |-> [counted EXCEPT !.t1 = OD_set(@, key, value)], ret |-> RetNone]
      ELSE IF OD_has(a.t2, key)
      THEN [c |-> [counted EXCEPT !.t2 = OD_set(@, key, value)], ret |-> RetNone]
      ELSE IF OD_has(a.b1, key)
      THEN [c |-> [replace(b1hit, key) EXCEPT !.b1 = OD_pop(@, key),
                                              !.t2 = OD_set(@, key, value)],
            ret |-> RetNone]
      ELSE IF OD_has(a.b2, key)
      THEN [c |-> [replace(b2hit, key) EXCEPT !.b2 = OD_pop(@, key),
                                              !.t2 = OD_set(@, key, value)],
            ret |-> RetNone]
      ELSE IF Len(cold.t1) + Len(cold.b1) = a.size
      THEN IF cold.b1 = <<>> THEN [c |-> cold, ret |-> KeyError]
           ELSE [c |-> [cold EXCEPT !.b1 = OD_popfirst(@),
                                    !.t1 = OD_set(@, key, value)],
                 ret |-> RetNone]
      ELSE IF total = 2 * a.size
      THEN IF cold.b2 = <<>> THEN [c |-> cold, ret |-> KeyError]
           ELSE [c |-> [cold EXCEPT !.b2 = OD_popfirst(@),
                                    !.t1 = OD_set(@, key, value)],
                 ret |-> RetNone]
      ELSE [c |-> [cold EXCEPT !.t1 = OD_set(@, key, value)], ret |-> RetNone]

\* A faulty __setitem__: a cold set tests the total of the four lists before
\* |T1| + |B1|.
ARC_setitem_TotalFirst(a, key, value) ==
  LET counted == [a EXCEPT !.set_count = @ + 1]
      b1hit == [counted EXCEPT
                  !.mhit_count = @ + 1,
                  !.p = Min(a.size, a.p + Max(Len(a.b2) \div Len(a.b1), 1))]
      b2hit == [counted EXCEPT
                  !.mhit_count = @ + 1,
                  !.p = Max(0, a.p - Max(Len(a.b1) \div Len(a.b2), 1))]
      cold == replace(counted, key)
      total == Len(cold.b1) + Len(cold.t1) + Len(cold.t2) + Len(cold.b2)
  IN  IF OD_has(a.t1, key)
      THEN [c |-> [counted EXCEPT !.t1 = OD_set(@, key, value)], ret |-> RetNone]
      ELSE IF OD_has(a.t2, key)
      THEN [c |-> [counted EXCEPT !.t2 = OD_set(@, key, value)], ret |-> RetNone]
      ELSE IF OD_has(a.b1, key)
      THEN [c |-> [replace(b1hit, key) EXCEPT !.b1 = OD_pop(@, key),
                                              !.t2 = OD_set(@, key, value)],
            ret |-> RetNone]
      ELSE IF OD_has(a.b2, key)
      THEN [c |-> [replace(b2hit, key) EXCEPT !.b2 = OD_pop(@, key),
                                              !.t2 = OD_set(@, key, value)],
            ret |-> RetNone]
      ELSE IF total = 2 * a.size
      THEN IF cold.b2 = <<>> THEN [c |-> cold, ret |-> KeyError]
           ELSE [c |-> [cold EXCEPT !.b2 = OD_popfirst(@),
                                    !.t1 = OD_set(@, key, value)],
                 ret |-> RetNone]
      ELSE IF Len(cold.t1) + Len(cold.b1) = a.size
      THEN IF cold.b1 = <<>> THEN [c |-> cold, ret |-> KeyError]
           ELSE [c |-> [cold EXCEPT !.b1 = OD_popfirst(@),
                                    !.t1 = OD_set(@, key, value)],
                 ret |-> RetNone]
      ELSE [c |-> [cold EXCEPT !.t1 = OD_set(@, key, value)], ret |-> RetNone]

\* ARCCache.__setitem__: [c, ret]; popitem(False) on an empty ghost list
\* raises KeyError, leaving what was done before it.
ARC_setitem(a, key, value) ==
  LET counted == [a EXCEPT !.set_count = @ + 1]
      b1hit == [counted EXCEPT
                  !.mhit_count = @ + 1,
                  !.p = Min(a.size, a.p + Max(Len(a.b2) \div Len(a.b1), 1))]
      b2hit == [counted EXCEPT
                  !.mhit_count = @ + 1,
                  !.p = Max(0, a.p - Max(Len(a.b1) \div Len(a.b2), 1))]
      cold == replace(counted, key)
      total == Len(cold.b1) + Len(cold.t1) + Len(cold.t2) + Len(cold.b2)
  IN  IF OD_has(a.t1, key)
      THEN [c |-> [counted EXCEPT !.t1 = OD_set(@, key, value)], ret |-> RetNone]
      ELSE IF OD_has(a.t2, key)
      THEN [c |-> [counted EXCEPT !.t2 = OD_set(@, key, value)], ret |-> RetNone]
      ELSE IF OD_has(a.b1, key)
      THEN [c |-> [replace(b1hit, key) EXCEPT !.b1 = OD_pop(@, key),
                                              !.t2 = OD_set(@, key, value)],
            ret |-> RetNone]
      ELSE IF OD_has(a.b2, key)
      THEN [c |-> [replace(b2hit, key) EXCEPT !.b2 = OD_pop(@, key),
                                              !.t2 = OD_set(@, key, value)],
            ret |-> RetNone]
      ELSE IF Len(cold.t1) + Len(cold.b1) = a.size
      THEN IF cold.b1 = <<>> THEN [c |-> cold, ret |-> KeyError]
           ELSE [c |-> [cold EXCEPT !.b1 = OD_popfirst(@),
                                    !.t1 = OD_set(@, key, value)],
                 ret |-> RetNone]
      ELSE IF total = 2 * a.size
      THEN IF cold.b2 = <<>> THEN [c |-> cold, ret |-> KeyError]
           ELSE [c |-> [cold EXCEPT !.b2 = OD_popfirst(@),
                                    !.t1 = OD_set(@, key, value)],
                 ret |-> RetNone]
      ELSE [c |-> [cold EXCEPT !.t1 = OD_set(@, key, value)], ret |-> RetNone]

\* A faulty __delitem__: a key deleted from T2 is put on B1.
ARC_delitem_ToB1(a, key) ==
  IF OD_has(a.t1, key)
  THEN [c |-> [a EXCEPT !.t1 = OD_pop(@, key), !.b1 = OD_set(@, key, 0)], ret |-> RetNone]
  ELSE IF OD_has(a.t2, key)
  THEN [c |-> [a EXCEPT !.t2 = OD_pop(@, key), !.b1 = OD_set(@, key, 0)], ret |-> RetNone]
  ELSE [c |-> a, ret |-> KeyError]

\* A faulty __delitem__: pops with a default, so that a key in neither T1 nor
\* T2 is put on B2 instead of raising.
ARC_delitem_PopDefault(a, key) ==
  IF OD_has(a.t1, key)
  THEN [c |-> [a EXCEPT !.t1 = OD_pop(@, key), !.b1 = OD_set(@, key, 0)], ret |-> RetNone]
  ELSE [c |-> [a EXCEPT !.t2 = IF OD_has(@, key) THEN OD_pop(@, key) ELSE @,
                        !.b2 = OD_set(@, key, 0)],
        ret |-> RetNone]

\* ARCCache.__delitem__: [c, ret]; t2.pop(key) raises KeyError for a key in
\* neither t1 nor t2.
ARC_delitem(a, key) ==
  IF OD_has(a.t1, key)
  THEN [c |-> [a EXCEPT !.t1 = OD_pop(@, key), !.b1 = OD_set(@, key, 0)], ret |-> RetNone]
  ELSE IF OD_has(a.t2, key)
  THEN [c |-> [a EXCEPT !.t2 = OD_pop(@, key), !.b2 = OD_set(@, key, 0)], ret |-> RetNone]
  ELSE [c |-> a, ret |-> KeyError]

\* ------------------------------------------------- the cache under test
\* cache is the cache object, a DLFUCache or an ARCCache.  lastSet is history:
\* the value of the most recent set(k, .) of each key, 0 before any.
VARIABLES cache, lastSet, lruAll, lruNew, inserted, steps

\* History, recorded by the specifications that need it: lastSet; two
\* reference LRU lists (least recently used key first), lruAll in which every
\* set makes its key most recently used and lruNew in which only a set that
\* inserts does; inserted, the primary keys in the order they entered primary;
\* steps, the number of operations performed, for the runs whose length the
\* cache's own counters do not bound.
hist == <<lastSet, lruAll, lruNew, inserted, steps>>
vars == <<cache, lastSet, lruAll, lruNew, inserted, steps>>

\* The caches that are run: DLFUCache(size, msize, T) for these <<size, msize>>
\* with T = 0 (LRU), T = 1/size (decaying, M = 2) and T = +inf (LFU), and
\* ARCCache(size).
Shapes == {<<1, 1>>, <<2, 0>>, <<2, 1>>}
Configs ==
  {DLFU_init(sh[1], sh[2], T) : sh \in Shapes, T \in {Zero, inf}}
  \cup {DLFU_init(sh[1], sh[2], Rat(1, sh[1])) : sh \in Shapes}
  \cup {ARC_init(size) : size \in {1, 2}}

\* Method dispatch on the object's class.
IsDLFU(c) == c.cls = "DLFUCache"
IsARC(c) == c.cls = "ARCCache"
getitem(c, key) == IF IsDLFU(c) THEN DLFU_getitem(c, key) ELSE ARC_getitem(c, key)
setitem(c, key, value) ==
  IF IsDLFU(c) THEN DLFU_setitem(c, key, value) ELSE ARC_setitem(c, key, value)
delitem(c, key) == IF IsDLFU(c) THEN DLFU_delitem(c, key) ELSE ARC_delitem(c, key)

\* key in cache: neither class defines __contains__, so this is the inherited
\* Mapping.__contains__, which tries self[key] and reports whether it raised.
contains(c, key) ==
  [c |-> getitem(c, key).c, ret |-> RetBool(getitem(c, key).ret # KeyError)]

NoHistory ==
  /\ lastSet = [k \in Keys |-> 0]
  /\ lruAll = <<>>
  /\ lruNew = <<>>
  /\ inserted = <<>>
  /\ steps = 0

Init == cache \in Configs /\ NoHistory

\* The operations, as steps of the cache object.
GetOp(k) == cache' = getitem(cache, k).c
ContainsOp(k) == cache' = contains(cache, k).c
SetOp(k, v) == cache' = setitem(cache, k, v).c
DeleteOp(k) == cache' = delitem(cache, k).c

\* The run's length is bounded through the counters the operations keep.
Budget == cache.get_count + cache.set_count < MaxOps

Get(k) == Budget /\ GetOp(k) /\ UNCHANGED hist
Contains(k) == Budget /\ ContainsOp(k) /\ UNCHANGED hist
Set(k, v) == Budget /\ SetOp(k, v) /\ UNCHANGED hist
Delete(k) == DeleteOp(k) /\ UNCHANGED hist

Next ==
  \/ \E k \in Keys : Get(k)
  \/ \E k \in Keys : Contains(k)
  \/ \E k \in Keys, v \in Vals : Set(k, v)
  \/ \E k \in Keys : Delete(k)

Spec == Init /\ [][Next]_vars

\* The same runs with the values of the sets recorded.
HistSet(k, v) ==
  /\ Budget
  /\ SetOp(k, v)
  /\ lastSet' = [lastSet EXCEPT ![k] = v]
  /\ UNCHANGED <<lruAll, lruNew, inserted, steps>>

NextHist ==
  \/ \E k \in Keys : Get(k)
  \/ \E k \in Keys : Contains(k)
  \/ \E k \in Keys, v \in Vals : HistSet(k, v)
  \/ \E k \in Keys : Delete(k)

SpecHist == Init /\ [][NextHist]_vars

\* ------------------------------------------------------------ observers
\* The primary partition: cqueue for DLFU, T1 and T2 for ARC.
Primary(c) ==
  IF IsDLFU(c) THEN PQ_keys(c.cqueue) ELSE OD_keys(c.t1) \cup OD_keys(c.t2)
\* The shadow partition: mqueue for DLFU, the ghost lists B1 and B2 for ARC.
Shadow(c) ==
  IF IsDLFU(c) THEN PQ_keys(c.mqueue) ELSE OD_keys(c.b1) \cup OD_keys(c.b2)
\* The keys that have a stored value.
Stored(c) ==
  IF IsDLFU(c) THEN DOMAIN c.data ELSE OD_keys(c.t1) \cup OD_keys(c.t2)
\* The keys of the entries held by a queue.
QueueKeys(pq) == {pq.queue[j].k : j \in DOMAIN pq.queue}

\* The score a queue holds for a key.
Score(pq, key) == PQ_getitem(pq, key)

\* ------------------------------------------------------------------ C1
\* C1: in DLFUCache and ARCCache, after any sequence of operations, get(k) on
\* a key of the primary partition returns the value of the most recent
\* set(k, .).
C1_GetReturnsLastSet ==
  \A k \in Primary(cache) : getitem(cache, k).ret = RetValue(lastSet[k])

\* A primary key that was set, in a run that also performed gets and at least
\* two sets.
C1_Witness ==
  /\ cache.get_count > 0
  /\ cache.set_count >= 2
  /\ \E k \in Primary(cache) : lastSet[k] = NumVals

\* ------------------------------------------------------------------ C2
\* C2: in a DLFUCache (T = 0, finite or +inf) the primary queue holds at most
\* size keys and the shadow queue at most msize keys, so at most size + msize
\* keys are tracked.
C2_Capacity ==
  IsDLFU(cache) =>
    /\ PQ_len(cache.cqueue) <= cache.size
    /\ Len(cache.cqueue.queue) <= cache.size
    /\ PQ_len(cache.mqueue) <= cache.msize
    /\ Len(cache.mqueue.queue) <= cache.msize
    /\ Cardinality(Primary(cache) \cup Shadow(cache)) <= cache.size + cache.msize

\* Both queues full after more operations than there are slots.
C2_Witness ==
  /\ IsDLFU(cache)
  /\ cache.msize >= 1
  /\ PQ_len(cache.cqueue) = cache.size
  /\ PQ_len(cache.mqueue) = cache.msize
  /\ cache.get_count + cache.set_count > cache.size + cache.msize

\* ------------------------------------------------------------------ C3
\* C3: in a DLFUCache no key is in both cqueue and mqueue, and the keys with a
\* stored value are exactly the keys of cqueue.
C3_Partition ==
  IsDLFU(cache) =>
    /\ PQ_keys(cache.cqueue) \cap PQ_keys(cache.mqueue) = {}
    /\ QueueKeys(cache.cqueue) \cap QueueKeys(cache.mqueue) = {}
    /\ DOMAIN cache.data = PQ_keys(cache.cqueue)

\* Both partitions in use after an eviction or a delete.
C3_Witness ==
  /\ IsDLFU(cache)
  /\ cache.set_count >= 2
  /\ PQ_keys(cache.cqueue) # {}
  /\ PQ_keys(cache.mqueue) # {}
  /\ DOMAIN cache.data # {}

\* ------------------------------------------------------------------ C4
\* C4: contains(k) reports whether k has a stored value and changes nothing:
\* the counters, the scores, C and the queues or lists are as before the call.
C4_ContainsChangesNothing ==
  [][\A k \in Keys :
       ContainsOp(k) =>
         /\ contains(cache, k).ret = RetBool(k \in Stored(cache))
         /\ cache' = cache]_vars

\* ------------------------------------------------------------------ C5
\* What set(k, v) of a shadow key k leaves when it promotes: k in primary with
\* its shadow score and with v stored and, if primary was full, the entry
\* peekitem() named (the primary minimum) in shadow with its score and
\* without a value.
Promoted(c, c2, k, v) ==
  LET full == PQ_len(c.cqueue) = c.size
      mink == PQ_peekitem(c.cqueue).key
      minp == PQ_peekitem(c.cqueue).value
  IN  /\ k \in PQ_keys(c2.cqueue)
      /\ k \notin PQ_keys(c2.mqueue)
      /\ Score(c2.cqueue, k) = Score(c.mqueue, k)
      /\ k \in DOMAIN c2.data
      /\ c2.data[k] = v
      /\ full => /\ mink \notin PQ_keys(c2.cqueue)
                 /\ mink \in PQ_keys(c2.mqueue)
                 /\ Score(c2.mqueue, mink) = minp
                 /\ mink \notin DOMAIN c2.data
      /\ ~full => PQ_keys(c2.cqueue) = PQ_keys(c.cqueue) \cup {k}

\* The shadow key's score lets it into primary: primary has room, or its
\* minimum is not above the score.
GoodEnough(c, k) ==
  \/ PQ_len(c.cqueue) < c.size
  \/ Le(PQ_peekitem(c.cqueue).value, Score(c.mqueue, k))

\* C5 as stated: in DLFUCache, set(k, v) on a shadow key always promotes it.
C5_SetShadowPromotes ==
  [][\A k \in Keys, v \in Vals :
       (IsDLFU(cache) /\ k \in Shadow(cache) /\ SetOp(k, v))
         => Promoted(cache, cache', k, v)]_vars

\* C5 amended: in DLFUCache, set(k, v) on a shadow key promotes it when primary
\* has room or the key's score is at least the primary minimum; otherwise the
\* set only counts and the key stays in shadow.
C5_SetShadowPromotesIfGoodEnough ==
  [][\A k \in Keys, v \in Vals :
       (IsDLFU(cache) /\ k \in Shadow(cache) /\ SetOp(k, v))
         => IF GoodEnough(cache, k)
            THEN Promoted(cache, cache', k, v)
            ELSE cache' = [cache EXCEPT !.set_count = @ + 1]]_vars

\* An LFU cache of size 1 whose cached key was counted twice in shadow and
\* never hit in primary, with the key it displaced in shadow: a promotion into
\* a full primary has happened.
C5_Witness ==
  /\ IsDLFU(cache)
  /\ cache.T = inf
  /\ cache.size = 1
  /\ cache.hit_count = 0
  /\ cache.mhit_count >= 1
  /\ \E k \in Primary(cache) : Score(cache.cqueue, k) = Num(2)
  /\ Shadow(cache) # {}

\* ------------------------------------------------------------------ C6
\* C6: in DLFUCache with msize >= 1, delete(k) of a primary key moves it to
\* shadow whatever the shadow holds: afterwards k is in mqueue with the score
\* it had in cqueue, and its value is dropped.
C6_DeleteMovesToShadow ==
  [][\A k \in Keys :
       (IsDLFU(cache) /\ cache.msize >= 1 /\ k \in Primary(cache) /\ DeleteOp(k))
         => /\ k \notin Primary(cache')
            /\ k \notin Stored(cache')
            /\ k \in Shadow(cache')
            /\ Score(cache'.mqueue, k) = Score(cache.cqueue, k)]_vars

\* ------------------------------------------------------------------ C9
\* C9: in DLFUCache and ARCCache, in any reachable state and for any key and
\* value, set(k, v) performed twice leaves the state that performing it once
\* leaves, but for set_count being one higher.
C9_SetIdempotent ==
  \A k \in Keys, v \in Vals :
    LET once == setitem(cache, k, v).c
        twice == setitem(once, k, v).c
    IN  twice = [once EXCEPT !.set_count = @ + 1]

\* A state in which a set has been done and some set would displace a key of
\* the primary partition.
C9_Witness ==
  /\ cache.set_count >= 1
  /\ \E k \in Keys, v \in Vals :
       /\ Primary(cache) \ Primary(setitem(cache, k, v).c) # {}
       /\ k \in Primary(setitem(cache, k, v).c)

\* ----------------------------------------------------------------- C10
\* C10: in DLFUCache and ARCCache, get(k) on a key with no stored value fails
\* with KeyError, and that get still adds one to get_count and leaves
\* hit_count as it was.
C10_MissCounts ==
  [][\A k \in Keys :
       (k \notin Stored(cache) /\ GetOp(k))
         => /\ getitem(cache, k).ret = KeyError
            /\ cache'.get_count = cache.get_count + 1
            /\ cache'.hit_count = cache.hit_count]_vars

\* Gets have missed: more gets than hits, with some key stored.
C10_Witness ==
  /\ cache.get_count > cache.hit_count
  /\ cache.hit_count >= 1
  /\ Stored(cache) # {}

\* ------------------------------------------------------------------ C7
\* The reference LRU of capacity cap, least recently used key first.
Range(seq) == {seq[j] : j \in DOMAIN seq}
Without(seq, k) == SelectSeq(seq, LAMBDA x : x # k)
\* A get hit makes the key most recently used; a miss changes nothing.
RefGet(l, k) == IF k \in Range(l) THEN Append(Without(l, k), k) ELSE l
\* An insertion into a full list drops the least recently used key.
RefInsert(l, k, cap) == Append(IF Len(l) = cap THEN Tail(l) ELSE l, k)
\* Every set makes its key most recently used.
RefSetAll(l, k, cap) ==
  IF k \in Range(l) THEN Append(Without(l, k), k) ELSE RefInsert(l, k, cap)
\* Only a set that inserts touches the order.
RefSetNew(l, k, cap) == IF k \in Range(l) THEN l ELSE RefInsert(l, k, cap)

\* DLFUCache(size, 0, T=0) under gets and sets, beside the reference lists.
InitLRU == cache \in {DLFU_init(size, 0, Zero) : size \in {1, 2, 3}} /\ NoHistory

BudgetLRU == cache.get_count + cache.set_count < MaxOpsLRU

LRUGet(k) ==
  /\ BudgetLRU
  /\ GetOp(k)
  /\ lruAll' = RefGet(lruAll, k)
  /\ lruNew' = RefGet(lruNew, k)
  /\ UNCHANGED <<lastSet, inserted, steps>>

LRUSet(k, v) ==
  /\ BudgetLRU
  /\ SetOp(k, v)
  /\ lruAll' = RefSetAll(lruAll, k, cache.size)
  /\ lruNew' = RefSetNew(lruNew, k, cache.size)
  /\ UNCHANGED <<lastSet, inserted, steps>>

NextLRU ==
  \/ \E k \in Keys : LRUGet(k)
  \/ \E k \in Keys, v \in Vals : LRUSet(k, v)

SpecLRU == InitLRU /\ [][NextLRU]_vars

\* The keys of a queue in queue order.
QueueOrder(pq) == [j \in DOMAIN pq.queue |-> pq.queue[j].k]

\* C7 as stated: after every get or set on DLFUCache(size, 0, T=0) the cached
\* keys are those of the reference LRU in which a get hit and every set make
\* the key most recently used.
C7_LRUEveryAccess == Stored(cache) = Range(lruAll)

\* C7 amended: after every get or set on DLFUCache(size, 0, T=0) the cached
\* keys, and their eviction order, are those of the reference LRU in which a
\* get hit and a set that inserts the key make it most recently used, a set of
\* an already cached key leaving the order as it is.
C7_LRUGetAndInsert ==
  /\ Stored(cache) = Range(lruNew)
  /\ QueueOrder(cache.cqueue) = lruNew

\* A full cache of two keys after an eviction, the cached keys then set again
\* and read: at least five operations, one of them a hit.
C7_Witness ==
  /\ cache.size = 2
  /\ Len(lruNew) = 2
  /\ cache.set_count >= 4
  /\ cache.hit_count >= 1
  /\ lruNew # lruAll

\* ------------------------------------------------------------------ C8
\* inserted after a step: the keys still in primary, then the key that entered.
InsertedNext(ins, c2) ==
  LET kept == SelectSeq(ins, LAMBDA x : x \in Primary(c2))
      new == Primary(c2) \ Range(kept)
  IN  IF new = {} THEN kept ELSE Append(kept, CHOOSE x \in new : TRUE)

\* DLFUCache(size, msize, T=+inf), with the order of insertion recorded.
InitLFU == cache \in {DLFU_init(sh[1], sh[2], inf) : sh \in Shapes} /\ NoHistory

BudgetLFU == cache.get_count + cache.set_count < MaxOpsLFU

LFUGet(k) ==
  /\ BudgetLFU
  /\ GetOp(k)
  /\ inserted' = InsertedNext(inserted, cache')
  /\ UNCHANGED <<lastSet, lruAll, lruNew, steps>>

LFUSet(k, v) ==
  /\ BudgetLFU
  /\ SetOp(k, v)
  /\ inserted' = InsertedNext(inserted, cache')
  /\ UNCHANGED <<lastSet, lruAll, lruNew, steps>>

LFUDelete(k) ==
  /\ DeleteOp(k)
  /\ inserted' = InsertedNext(inserted, cache')
  /\ UNCHANGED <<lastSet, lruAll, lruNew, steps>>

NextLFU ==
  \/ \E k \in Keys : LFUGet(k)
  \/ \E k \in Keys, v \in Vals : LFUSet(k, v)
  \/ \E k \in Keys : LFUDelete(k)

SpecLFU == InitLFU /\ [][NextLFU]_vars

\* The place of a key in a sequence of keys.
Place(seq, k) == CHOOSE j \in DOMAIN seq : seq[j] = k
\* The keys a step removes from primary.
Evicted(c, c2) == Primary(c) \ Primary(c2)
\* e has the lowest score of the primary keys of c.
LowestScore(c, e) == \A o \in Primary(c) : Le(Score(c.cqueue, e), Score(c.cqueue, o))
\* e entered primary before every other primary key of c that has its score.
EarliestOfTied(c, ins, e) ==
  \A o \in Primary(c) :
    Score(c.cqueue, o) = Score(c.cqueue, e) => Place(ins, e) <= Place(ins, o)

C11_DeleteMissChangesNothing ==
  \A k \in Keys \ Primary(cache) :
    /\ delitem(cache, k).ret = KeyError
    /\ delitem(cache, k).c = cache

\* An ARCCache with a cached key, a key on a ghost list and a key it does not
\* track: deletes of the last two miss.
C11_Witness ==
  /\ IsARC(cache)
  /\ Primary(cache) # {}
  /\ Shadow(cache) # {}
  /\ Keys \ (Primary(cache) \cup Shadow(cache)) # {}
  /\ \E k \in Shadow(cache) : delitem(cache, k).ret = KeyError

\* ----------------------------------------------------------------- C12
\* C12: every successful delete(k), on DLFUCache and on ARCCache, adds
\* exactly one to del_count.
C12_DeleteCounts ==
  [][\A k \in Keys :
       (k \in Primary(cache) /\ DeleteOp(k))
         => cache'.del_count = cache.del_count + 1]_vars

\* ------------------------------------------------------------ C13, C14
\* reset_stats, dispatched on the object's class.
reset_stats(c) == IF IsDLFU(c) THEN DLFU_reset_stats(c) ELSE ARC_reset_stats(c)
ResetStatsOp == cache' = reset_stats(cache)

\* Runs of get, set, delete and reset_stats.  reset_stats zeroes the counters
\* that bound the other runs, so these are bounded by the number of steps.
MaxOpsStats == 4
BudgetStats == steps < MaxOpsStats
Stepped == steps' = steps + 1 /\ UNCHANGED <<lastSet, lruAll, lruNew, inserted>>

StatsGet(k) == BudgetStats /\ GetOp(k) /\ Stepped
StatsSet(k, v) == BudgetStats /\ SetOp(k, v) /\ Stepped
StatsDelete(k) == BudgetStats /\ DeleteOp(k) /\ Stepped
StatsReset == BudgetStats /\ ResetStatsOp /\ Stepped

NextStats ==
  \/ \E k \in Keys : StatsGet(k)
  \/ \E k \in Keys, v \in Vals : StatsSet(k, v)
  \/ \E k \in Keys : StatsDelete(k)
  \/ StatsReset

SpecStats == Init /\ [][NextStats]_vars

\* C13: after any sequence of get, set, delete and reset_stats on a DLFUCache,
\* hit_count <= get_count and hit_count + mhit_count <= get_count.
C13_MonotoneStats ==
  IsDLFU(cache) =>
    /\ cache.hit_count <= cache.get_count
    /\ cache.hit_count + cache.mhit_count <= cache.get_count

\* A DLFUCache whose set was forgotten by a reset_stats, then read with a hit
\* and with a miss.
C13_Witness ==
  /\ IsDLFU(cache)
  /\ cache.set_count = 0
  /\ Primary(cache) # {}
  /\ cache.hit_count >= 1
  /\ cache.get_count > cache.hit_count

\* C14: after any sequence of get, set, delete and reset_stats on an
\* ARCCache, hit_count <= get_count and hit_count + mhit_count <= get_count.
C14_MonotoneStats ==
  IsARC(cache) =>
    /\ cache.hit_count <= cache.get_count
    /\ cache.hit_count + cache.mhit_count <= cache.get_count

\* ------------------------------------------------------------ C15, C16
\* ARCCache(size) alone, under longer runs over more keys, so that the four
\* lists fill up.
NumKeysARC == 5
MaxOpsARC == 7
KeysARC == 1..NumKeysARC

InitARC == cache \in {ARC_init(size) : size \in {1, 2}} /\ NoHistory

BudgetARC == steps < MaxOpsARC
ARCGet(k) == BudgetARC /\ GetOp(k) /\ Stepped
ARCSet(k, v) == BudgetARC /\ SetOp(k, v) /\ Stepped
ARCDelete(k) == BudgetARC /\ DeleteOp(k) /\ Stepped

NextARC ==
  \/ \E k \in KeysARC : ARCGet(k)
  \/ \E k \in KeysARC, v \in Vals : ARCSet(k, v)
  \/ \E k \in KeysARC : ARCDelete(k)

SpecARC == InitARC /\ [][NextARC]_vars

\* C15: after any sequence of get, set and delete on an ARCCache(size),
\* |T1|+|T2| <= size, |T1|+|B1| <= size, |T2|+|B2| <= 2*size, and the four
\* lists together hold at most 2*size keys.
C15_ListSizes ==
  /\ Len(cache.t1) + Len(cache.t2) <= cache.size
  /\ Len(cache.t1) + Len(cache.b1) <= cache.size
  /\ Len(cache.t2) + Len(cache.b2) <= 2 * cache.size
  /\ Len(cache.t1) + Len(cache.b1) + Len(cache.t2) + Len(cache.b2) <= 2 * cache.size

\* An ARCCache(2) with all four lists in use and 2*size keys tracked.
C15_Witness ==
  /\ cache.size = 2
  /\ cache.t1 # <<>> /\ cache.b1 # <<>> /\ cache.t2 # <<>> /\ cache.b2 # <<>>

\* C16: after any sequence of get, set and delete on an ARCCache, the lists
\* T1, T2, B1 and B2 are pairwise key-disjoint.
C16_Disjoint ==
  /\ OD_keys(cache.t1) \cap OD_keys(cache.t2) = {}
  /\ OD_keys(cache.t1) \cap OD_keys(cache.b1) = {}
  /\ OD_keys(cache.t1) \cap OD_keys(cache.b2) = {}
  /\ OD_keys(cache.t2) \cap OD_keys(cache.b1) = {}
  /\ OD_keys(cache.t2) \cap OD_keys(cache.b2) = {}
  /\ OD_keys(cache.b1) \cap OD_keys(cache.b2) = {}

\* An ARCCache that, after a ghost hit, has keys on three of its lists.
C16_Witness ==
  /\ cache.mhit_count >= 1
  /\ cache.t1 # <<>> /\ cache.t2 # <<>>
  /\ cache.b1 # <<>> \/ cache.b2 # <<>>

\* ----------------------------------------------------------------- C17
\* Scenario S4: a fresh ARCCache(4); keys 1..8 are set in order, then keys
\* 1..4 are set again in order, each with any value.  steps counts the sets.
InitS4 == cache = ARC_init(4) /\ NoHistory

S4Keys == <<1, 2, 3, 4, 5, 6, 7, 8, 1, 2, 3, 4>>

S4Set(v) == steps < Len(S4Keys) /\ SetOp(S4Keys[steps + 1], v) /\ Stepped

NextS4 == \E v \in Vals : S4Set(v)

SpecS4 == InitS4 /\ [][NextS4]_vars

\* C17 as stated: in scenario S4 the second sets of 1..4 are B1 hits, p has
\* grown by at least 1 with each of them, and the final p is in 1..4.
C17_S4SecondSetsHitB1 ==
  /\ steps > 8 => /\ cache.mhit_count = steps - 8
                  /\ cache.p >= steps - 8
  /\ steps = 12 => cache.p \in 1..4

\* C17 amended: in scenario S4 every set is a complete miss.  With T2 empty,
\* the key that _replace moves from T1 to B1 is popped from B1 by the same
\* set, so B1 stays empty: T1 holds the last four keys set, T2, B1 and B2 are
\* empty, no ghost hit is counted and p stays 0, up to the end, when T1 holds
\* 1, 2, 3, 4.
C17_S4AllMisses ==
  /\ cache.b1 = <<>> /\ cache.t2 = <<>> /\ cache.b2 = <<>>
  /\ cache.mhit_count = 0
  /\ cache.p = 0
  /\ cache.set_count = steps
  /\ steps <= 4 => [j \in DOMAIN cache.t1 |-> cache.t1[j][1]] = [j \in 1..steps |-> j]
  /\ steps = 8 => [j \in DOMAIN cache.t1 |-> cache.t1[j][1]] = <<5, 6, 7, 8>>
  /\ steps = 12 => [j \in DOMAIN cache.t1 |-> cache.t1[j][1]] = <<1, 2, 3, 4>>

\* The end of scenario S4: twelve sets done, the last of them of key 4.
C17_Witness ==
  /\ steps = 12
  /\ cache.set_count = 12
  /\ Len(cache.t1) = 4
  /\ cache.t1[4][1] = 4

\* ----------------------------------------------------------------- C18
\* Scenario S3: a fresh DLFUCache(2, 2, T); keys A, B, C, D (1, 2, 3, 4) are
\* set in order, then A is read a number of times, then A is set.  steps
\* counts the operations.  With T = 4 (M = 9/8) the exact scores outgrow the
\* integers after five reads, so the runs of ten reads are those of
\* T = 1/2 (M = 2).
InitS3 == cache \in {DLFU_init(2, 2, T) : T \in {Num(4), Rat(1, 2)}} /\ NoHistory

S3Reads == IF cache.T = Num(4) THEN 5 ELSE 10

\* The key of the set at this point of the scenario: A, B, C, D, then A.
S3Key == IF steps < 4 THEN steps + 1 ELSE 1

S3Set(v) ==
  /\ steps >= 4 => cache.set_count = 4
  /\ SetOp(S3Key, v)
  /\ Stepped
S3Get ==
  /\ steps >= 4
  /\ cache.set_count = 4
  /\ cache.get_count < S3Reads
  /\ GetOp(1)
  /\ Stepped

NextS3 ==
  \/ \E v \in Vals : S3Set(v)
  \/ S3Get

SpecS3 == InitS3 /\ [][NextS3]_vars

ADLFU_Ts(c) == {Rat(1, c.size), Rat(1, 2 * c.size)}

\* ADLFUCache.__init__(size, msize)
ADLFU_init(size, msize) ==
  [DLFU_init(size, msize, Num(8)) EXCEPT !.cls = "ADLFUCache"]

\* ADLFUCache._setT
setT(c, T) ==
  [c EXCEPT !.C = Mul(@, Div(c.T, T)),
            !.T = T,
            !.M = Div(Add(Mul(T, Num(c.size)), One), Mul(T, Num(c.size)))]

\* ADLFUCache.__getitem__: [c, ret]; the value DLFUCache.__getitem__ returns
\* is bound to ret and the method ends without a return statement, so a get
\* that does not raise returns None.
ADLFU_getitem(c, key, T) ==
  LET super == DLFU_getitem(setT(c, T), key)
  IN  [c |-> super.c,
       ret |-> IF super.ret = KeyError THEN KeyError ELSE RetNone]

InitADLFU == cache \in {ADLFU_init(sh[1], sh[2]) : sh \in Shapes} /\ NoHistory

MaxOpsADLFU == 3
BudgetADLFU == cache.get_count + cache.set_count < MaxOpsADLFU

ADLFUGet(k, T) ==
  /\ BudgetADLFU
  /\ cache' = ADLFU_getitem(cache, k, T).c
  /\ UNCHANGED hist
ADLFUSet(k, v) ==
  /\ BudgetADLFU
  /\ cache' = DLFU_setitem(cache, k, v).c
  /\ lastSet' = [lastSet EXCEPT ![k] = v]
  /\ UNCHANGED <<lruAll, lruNew, inserted, steps>>
ADLFUDelete(k) == cache' = DLFU_delitem(cache, k).c /\ UNCHANGED hist

NextADLFU ==
  \/ \E k \in Keys, T \in ADLFU_Ts(cache) : ADLFUGet(k, T)
  \/ \E k \in Keys, v \in Vals : ADLFUSet(k, v)
  \/ \E k \in Keys : ADLFUDelete(k)

SpecADLFU == InitADLFU /\ [][NextADLFU]_vars

\* C19: get(k) on an ADLFUCache returns, for a key held in primary, the value
\* of the most recent set(k, .), and raises KeyError for a key with no stored
\* value.
C19_ADLFUGetContract ==
  \A k \in Keys, T \in ADLFU_Ts(cache) :
    ADLFU_getitem(cache, k, T).ret =
      IF k \in PQ_keys(cache.cqueue) THEN RetValue(lastSet[k]) ELSE KeyError

\* ----------------------------------------------------------------- C20
\* The NameError raised by the evaluation of a name that is not defined.
NameError == <<"NameError", 0>>

\* DLFUCache.hit_rate, DLFUCache.mhit_rate
DLFU_hit_rate(c) ==
  RetValue(IF c.get_count # 0 THEN Rat(c.hit_count, c.get_count) ELSE nan)
DLFU_mhit_rate(c) ==
  RetValue(IF c.get_count # 0 THEN Rat(c.mhit_count, c.get_count) ELSE nan)

\* ARCCache.hit_rate, ARCCache.mhit_rate: ARCCache.py neither defines nor
\* imports the name nan that the properties return for zero gets.
ARC_hit_rate(a) ==
  IF 0 < a.get_count THEN RetValue(Rat(a.hit_count, a.get_count)) ELSE NameError
ARC_mhit_rate(a) ==
  IF 0 < a.get_count THEN RetValue(Rat(a.mhit_count, a.get_count)) ELSE NameError

hit_rate(c) == IF IsDLFU(c) THEN DLFU_hit_rate(c) ELSE ARC_hit_rate(c)
mhit_rate(c) == IF IsDLFU(c) THEN DLFU_mhit_rate(c) ELSE ARC_mhit_rate(c)

\* C20: on DLFUCache and on ARCCache, hit_rate and mhit_rate read while
\* get_count is 0 (fresh, or right after reset_stats) return NaN.
C20_RatesNaNOnZeroGets ==
  cache.get_count = 0 =>
    /\ hit_rate(cache) = RetValue(nan)
    /\ mhit_rate(cache) = RetValue(nan)

\* ----------------------------------------------------------------- C21
\* Construction.  The name the new object is bound to holds Unbound until a
\* constructor call returns; a call that raises leaves it as it was.
Unbound == [cls |-> "None"]
ZeroDivisionError == <<"ZeroDivisionError", 0>>

\* DLFUCache(size, msize, T) as a call: [c, ret].  __init__ checks none of its
\* arguments.  With T = NaN both comparisons of T are false and
\* M = (T*size + 1.0) / (T*size) is NaN; with a finite T other than 0 and
\* size = 0 the divisor T*size is 0.0 and the division raises.
DLFU_new(size, msize, T) ==
  IF IsNaN(T)
  THEN [c |-> [DLFU_init(size, msize, inf) EXCEPT !.T = nan, !.M = nan], ret |-> RetNone]
  ELSE IF T # Zero /\ T # inf /\ size = 0
  THEN [c |-> Unbound, ret |-> ZeroDivisionError]
  ELSE [c |-> DLFU_init(size, msize, T), ret |-> RetNone]

\* ARCCache(size) as a call: [c, ret].
ARC_new(size) == [c |-> ARC_init(size), ret |-> RetNone]

\* The arguments tried: sizes and msizes around 0, and T = 0, 1/2, 4, +inf
\* and NaN.
CtorSizes == -2 .. 3
CtorTs == {Zero, Rat(1, 2), Num(4), inf, nan}

InitCtor == cache = Unbound /\ NoHistory

\* c = DLFUCache(size, msize, T)
ConstructDLFU(size, msize, T) ==
  /\ cache = Unbound
  /\ DLFU_new(size, msize, T).ret = RetNone
  /\ cache' = DLFU_new(size, msize, T).c
  /\ UNCHANGED hist
\* c = DLFUCache(size, T=T): msize defaults to size.
ConstructDLFUDefault(size, T) == ConstructDLFU(size, size, T)
\* c = ARCCache(size)
ConstructARC(size) ==
  /\ cache = Unbound
  /\ ARC_new(size).ret = RetNone
  /\ cache' = ARC_new(size).c
  /\ UNCHANGED hist

NextCtor ==
  \/ \E size \in CtorSizes, msize \in CtorSizes, T \in CtorTs : ConstructDLFU(size, msize, T)
  \/ \E size \in CtorSizes, T \in CtorTs : ConstructDLFUDefault(size, T)
  \/ \E size \in CtorSizes : ConstructARC(size)

SpecCtor == InitCtor /\ [][NextCtor]_vars

\* C21: a DLFUCache with non-positive size, negative msize or NaN T, and an
\* ARCCache with non-positive size, cannot be constructed: no constructor call
\* with such arguments yields a cache object.
C21_InvalidConfigRejected ==
  cache # Unbound =>
    /\ cache.size > 0
    /\ IsDLFU(cache) => (cache.msize >= 0 /\ ~IsNaN(cache.T))

\* ----------------------------------------------------------------- C22
\* clear, dispatched on the object's class.
clear(c) == IF IsDLFU(c) THEN DLFU_clear(c) ELSE ARC_clear(c)
ClearOp == cache' = clear(cache)

\* The cache a constructor call with the parameters of c builds.
Fresh(c) == IF IsDLFU(c) THEN DLFU_init(c.size, c.msize, c.T) ELSE ARC_init(c.size)

\* Runs of get, set, delete and clear, bounded by the number of steps.
MaxOpsClear == 4
BudgetClear == steps < MaxOpsClear

ClearGet(k) == BudgetClear /\ GetOp(k) /\ Stepped
ClearSet(k, v) == BudgetClear /\ SetOp(k, v) /\ Stepped
ClearDelete(k) == BudgetClear /\ DeleteOp(k) /\ Stepped
Clear == BudgetClear /\ ClearOp /\ Stepped

NextClear ==
  \/ \E k \in Keys : ClearGet(k)
  \/ \E k \in Keys, v \in Vals : ClearSet(k, v)
  \/ \E k \in Keys : ClearDelete(k)
  \/ Clear

SpecClear == Init /\ [][NextClear]_vars

\* C22: on DLFUCache and ARCCache, after any sequence of operations, clear()
\* leaves the cache equal to a freshly constructed cache with the same
\* parameters: queues, lists and value store empty, C = 1, moment sums 0,
\* p = 0, counters 0.  The operations being functions of the cache's state, a
\* run after clear() is then a run on a new cache.
C22_ClearIsFresh ==
  [][(steps' = steps + 1 /\ ClearOp) => cache' = Fresh(cache)]_vars

\* A DLFUCache with a grown C, a key in each queue and counted operations,
\* with a step left for clear().
C22_Witness ==
  /\ IsDLFU(cache)
  /\ cache.C # One
  /\ Primary(cache) # {}
  /\ Shadow(cache) # {}
  /\ cache.get_count > 0
  /\ cache.count_sum # Zero
  /\ BudgetClear

\* ----------------------------------------------------------------- C23
\* The sum of the scores of the entries of a queue, and of their squares.
RECURSIVE SumScores(_)
SumScores(q) == IF q = <<>> THEN Zero ELSE Add(Head(q).v, SumScores(Tail(q)))
RECURSIVE SumScores2(_)
SumScores2(q) == IF q = <<>> THEN Zero ELSE Add(Sq(Head(q).v), SumScores2(Tail(q)))

\* C23: after any sequence of get, set and delete on a DLFUCache (T = 0,
\* finite or +inf, gets that renormalise included), count_sum is the sum of
\* the scores held by cqueue and count_sum2 the sum of their squares, and
\* mcount_sum, mcount_sum2 are the same sums over mqueue, exactly.
C23_MomentsConsistent ==
  IsDLFU(cache) =>
    /\ cache.count_sum = SumScores(cache.cqueue.queue)
    /\ cache.count_sum2 = SumScores2(cache.cqueue.queue)
    /\ cache.mcount_sum = SumScores(cache.mqueue.queue)
    /\ cache.mcount_sum2 = SumScores2(cache.mqueue.queue)

\* A decaying DLFUCache after a renormalisation: C is back at 1, both queues
\* hold a key and the primary scores no longer sum to a whole number.
C23_Witness ==
  /\ IsDLFU(cache)
  /\ cache.T \notin {Zero, inf}
  /\ cache.get_count >= 2
  /\ cache.C = One
  /\ cache.count_sum[2] > 1
  /\ cache.mcount_sum # Zero

\* ----------------------------------------------------------------- C24
\* The keys a DLFUCache tracks and the score it holds for one of them.
Tracked(c) == PQ_keys(c.cqueue) \cup PQ_keys(c.mqueue)
ScoreOf(c, key) ==
  IF PQ_contains(c.cqueue, key) THEN Score(c.cqueue, key) ELSE Score(c.mqueue, key)

\* C24: in every reachable state of a DLFUCache (T = 0, finite positive or
\* +inf) M >= 1 and 1 <= C < threshold.  C changes only in a get: a get with
\* T # 0 multiplies C by M, unless the product reaches the threshold, in which
\* case C becomes exactly 1 and the score of every other tracked key is
\* divided by that product; a get with T = 0 leaves C alone.
C24_CBounded ==
  /\ [](IsDLFU(cache) =>
          /\ Ge(cache.M, One)
          /\ Ge(cache.C, One)
          /\ Lt(cache.C, Num(RenormThreshold)))
  /\ [][IsDLFU(cache) =>
          /\ cache'.C # cache.C => cache'.get_count = cache.get_count + 1
          /\ \A k \in Keys :
               (cache'.get_count = cache.get_count + 1 /\ GetOp(k)) =>
                 LET grown == Mul(cache.C, cache.M)
                 IN  IF ~Truthy(cache.T) THEN cache'.C = cache.C
                     ELSE IF Lt(grown, Num(RenormThreshold)) THEN cache'.C = grown
                     ELSE /\ cache'.C = One
                          /\ \A j \in (Tracked(cache) \cap Tracked(cache')) \ {k} :
                               ScoreOf(cache', j) = Div(ScoreOf(cache, j), grown)]_vars

\* A decaying DLFUCache right after the get that reset C: C is 1 again and a
\* primary key holds a score that was divided.
C24_Witness ==
  /\ IsDLFU(cache)
  /\ cache.T \notin {Zero, inf}
  /\ cache.get_count >= 2
  /\ cache.C = One
  /\ \E k \in Primary(cache) : Score(cache.cqueue, k)[2] > 1

\* ------------------------------------------------- C25, C26, C27: the queues
\* PQueue.py on its own: the object under test is a PQueueHeapq or a
\* PQueueLRU, the record [cls, kind, queue].

\* The loop of PQueueHeapq._queue: _shiftdn(heap, heap[i]) for i from
\* len(heap)//2 - 1 down to 0.
RECURSIVE heapify(_, _)
heapify(heap, i) == IF i < 0 THEN heap ELSE heapify(shiftdn(heap, i).h, i - 1)

\* PQueueVect.__init__ for a PQueueHeapq, from the items <<key, value>> of a
\* mapping in its iteration order: the heap of _queue, and self.data binding
\* each entry under its key.
RECURSIVE Listed(_)
Listed(items) ==
  IF items = <<>> THEN <<>>
  ELSE LET n == Len(items)
       IN  Append(Listed(SubSeq(items, 1, n - 1)),
                  [v |-> items[n][2], k |-> items[n][1], i |-> n - 1, r |-> {items[n][1]}])
Heapq_init(items) ==
  [cls |-> "PQueue", kind |-> "heapq",
   queue |-> heapify(Listed(items), (Len(items) \div 2) - 1)]

\* PQueueLRU(), as DLFUCache.__init__ constructs it: the empty list.
LRU_init == [cls |-> "PQueue", kind |-> "lru", queue |-> <<>>]

IndexError == <<"IndexError", 0>>
\* The pair an IPQ operation returns.
RetItem(key, value) == <<"item", key, value>>

\* PQueueVect.__delitem__ as a call: [pq, ret]; self.data.pop(key) raises
\* KeyError for a key that is not in the dict.
PQ_delitem(pq, key) ==
  IF ~PQ_contains(pq, key) THEN [pq |-> pq, ret |-> KeyError]
  ELSE [pq |-> PQ_popitem(pq, key).pq, ret |-> RetNone]

\* PQueueVect.peekitem() as a call: [pq, ret].  PQueueHeapq._peek reads
\* self.queue[0], an IndexError on an empty heap; CDList.peek reads the entry
\* after the sentinel, which in an empty list is the sentinel [None, None, ...]
\* itself, and returns its key and value: the pair (None, None).
PQ_peek(pq) ==
  IF pq.queue # <<>>
  THEN [pq |-> pq, ret |-> RetItem(PQ_peekitem(pq).key, PQ_peekitem(pq).value)]
  ELSE IF pq.kind = "heapq" THEN [pq |-> pq, ret |-> IndexError]
  ELSE [pq |-> pq, ret |-> <<"item", "None", "None">>]

\* PQueueVect.popitem() as a call: [pq, ret].  _pull() of the first entry
\* raises IndexError on an empty queue, which popitem turns into KeyError;
\* then del d[key], a KeyError when the entry pulled was not the one bound
\* under its key.
PQ_pop(pq) ==
  LET res == pull(pq, 0)
  IN  IF pq.queue = <<>> THEN [pq |-> pq, ret |-> KeyError]
      ELSE IF ~PQ_contains(pq, res.key)
      THEN [pq |-> [pq EXCEPT !.queue = res.h], ret |-> KeyError]
      ELSE [pq |-> [pq EXCEPT !.queue = Unbind(res.h, res.key)],
            ret |-> RetItem(res.key, res.value)]

\* PQueueVect.swapitem(key, value) as a call: [pq, ret].  _swap of the first
\* entry raises IndexError on an empty queue; then del d[oldkey], a KeyError
\* when the entry swapped was not the one bound under its key; then
\* d[key] = entry.
PQ_swap(pq, key, value) ==
  LET res == swap(pq, key, value, 0)
  IN  IF pq.queue = <<>> THEN [pq |-> pq, ret |-> IndexError]
      ELSE IF ~PQ_contains(pq, res.oldkey)
      THEN [pq |-> [pq EXCEPT !.queue = res.h], ret |-> KeyError]
      ELSE [pq |-> PQ_swapitem(pq, key, value).pq,
            ret |-> RetItem(res.oldkey, res.oldvalue)]

\* The queues that are run: keys 1..4, scores 0, 1, 2; a PQueueHeapq built
\* from a mapping of the first n keys, n = 0..4, and an empty PQueueLRU.
KeysPQ == 1 .. 4
Scores == {Zero, One, Num(2)}
Factors == {Rat(1, 2), Num(2)}
Mappings ==
  UNION {[1..n -> Scores] : n \in 0 .. 4}
RECURSIVE Items(_)
Items(m) ==
  IF DOMAIN m = {} THEN <<>>
  ELSE LET n == Cardinality(DOMAIN m)
       IN  Append(Items([j \in 1 .. n - 1 |-> m[j]]), <<n, m[n]>>)

InitPQ ==
  /\ cache \in {Heapq_init(Items(m)) : m \in Mappings} \cup {LRU_init}
  /\ NoHistory

MaxOpsPQ == 3
BudgetPQ == steps < MaxOpsPQ

PQSet(k, s) == BudgetPQ /\ cache' = PQ_setitem(cache, k, s) /\ Stepped
PQDelete(k) == BudgetPQ /\ cache' = PQ_delitem(cache, k).pq /\ Stepped
PQPeek == BudgetPQ /\ cache' = PQ_peek(cache).pq /\ Stepped
PQPop == BudgetPQ /\ cache' = PQ_pop(cache).pq /\ Stepped
PQSwap(k, s) == BudgetPQ /\ cache' = PQ_swap(cache, k, s).pq /\ Stepped
PQScale(m) == BudgetPQ /\ cache' = PQ_scale(cache, m) /\ Stepped

NextPQ ==
  \/ \E k \in KeysPQ, s \in Scores : PQSet(k, s)
  \/ \E k \in KeysPQ : PQDelete(k)
  \/ PQPeek
  \/ PQPop
  \/ \E k \in KeysPQ, s \in Scores : PQSwap(k, s)
  \/ \E m \in Factors : PQScale(m)

SpecPQ == InitPQ /\ [][NextPQ]_vars

\* C25: in a PQueueHeapq, after construction from a mapping and after any
\* sequence of set, delete, popitem, swapitem and scale by a positive factor,
\* every slot but the root holds a score that is not below its parent's, and
\* every entry's index field is the slot it occupies.
C25_HeapProperty ==
  cache.kind = "heapq" =>
    \A pos \in 0 .. Len(cache.queue) - 1 :
      /\ At(cache.queue, pos).i = pos
      /\ pos > 0 => Le(At(cache.queue, (pos - 1) \div 2).v, At(cache.queue, pos).v)

\* A heap of two levels below the root, after operations, in which the order
\* of the scores along the slots is not the sorted one.
C25_Witness ==
  /\ cache.kind = "heapq"
  /\ steps = MaxOpsPQ
  /\ Len(cache.queue) >= 4
  /\ Lt(At(cache.queue, 2).v, At(cache.queue, 1).v)
  /\ Lt(At(cache.queue, 0).v, At(cache.queue, 3).v)

\* C26: in a PQueueHeapq, after any sequence of set, delete, popitem and
\* swapitem (the new key of swapitem being any key, one already in the queue
\* included), the key -> entry dict holds exactly the keys of the heap's
\* entries, no two entries have the same key, every entry is the one bound
\* under its key, and len() is the number of entries.
C26_IndexConsistent ==
  cache.kind = "heapq" =>
    /\ PQ_keys(cache) = QueueKeys(cache)
    /\ \A j1, j2 \in DOMAIN cache.queue :
         cache.queue[j1].k = cache.queue[j2].k => j1 = j2
    /\ \A j \in DOMAIN cache.queue : cache.queue[j].r = {cache.queue[j].k}
    /\ PQ_len(cache) = Len(cache.queue)

\* What the operations of an IPQ raise.
Errors == {KeyError, IndexError}

\* C27: in a PQueueHeapq and in a PQueueLRU, peekitem() and popitem() on a
\* queue that is not empty return the key and score of the first entry, which
\* in the heap is an entry of minimum score and in the list is the head; on an
\* empty queue both raise an error and leave the queue as it was.
C27_PeekPopContract ==
  IF cache.queue = <<>>
  THEN /\ PQ_peek(cache).ret \in Errors
       /\ PQ_peek(cache).pq = cache
       /\ PQ_pop(cache).ret \in Errors
       /\ PQ_pop(cache).pq = cache
  ELSE /\ PQ_peek(cache).ret = RetItem(At(cache.queue, 0).k, At(cache.queue, 0).v)
       /\ PQ_pop(cache).ret = PQ_peek(cache).ret
       /\ cache.kind = "heapq" =>
            \A j \in DOMAIN cache.queue : Le(At(cache.queue, 0).v, cache.queue[j].v)

\* ----------------------------------------------------------------- C28
\* C28: in a DLFUCache a get(k) changes neither the primary keys nor any
\* stored value, and a shadow key it reads stays in shadow; a set(k, .) brings
\* no key but k into primary, removes at most one key from it, never k, and
\* changes no stored value but k's; a delete(k) removes k from primary and
\* nothing else, and brings nothing in.
\* Each case reads: the step has the stated effect, or it is not that operation.
C28_PrimaryFrame ==
  [][IsDLFU(cache) =>
       /\ \A k \in Keys :
            cache'.get_count = cache.get_count + 1 =>
              \/ /\ Primary(cache') = Primary(cache)
                 /\ cache'.data = cache.data
                 /\ k \in Shadow(cache) => k \in Shadow(cache')
              \/ ~GetOp(k)
       /\ \A k \in Keys, v \in Vals :
            cache'.set_count = cache.set_count + 1 =>
              \/ /\ Primary(cache') \ Primary(cache) \subseteq {k}
                 /\ Cardinality(Primary(cache) \ Primary(cache')) <= 1
                 /\ k \notin Primary(cache) \ Primary(cache')
                 /\ \A j \in (Stored(cache) \cap Stored(cache')) \ {k} :
                      cache'.data[j] = cache.data[j]
              \/ ~SetOp(k, v)
       /\ \A k \in Primary(cache) :
            (/\ cache'.get_count = cache.get_count
             /\ cache'.set_count = cache.set_count) =>
              \/ /\ Primary(cache') = Primary(cache) \ {k}
                 /\ \A j \in Stored(cache') :
                      j \in Stored(cache) /\ cache'.data[j] = cache.data[j]
              \/ ~DeleteOp(k)]_vars

\* A DLFUCache of one slot after a set that evicted a key to shadow and a
\* get that read the evicted key there.
C28_Witness ==
  /\ IsDLFU(cache)
  /\ cache.size = 1
  /\ cache.set_count >= 2
  /\ cache.mhit_count >= 1
  /\ Primary(cache) # {}
  /\ \E k \in Shadow(cache) : getitem(cache, k).ret = KeyError

\* ----------------------------------------------------------------- C29
\* DLFUCache.getcount: the count the cache reports for a key, score / C, and
\* 0.0 for a key in neither queue.
getcount(c, key) ==
  IF PQ_contains(c.cqueue, key) THEN Div(PQ_getitem(c.cqueue, key), c.C)
  ELSE IF PQ_contains(c.mqueue, key) THEN Div(PQ_getitem(c.mqueue, key), c.C)
  ELSE Zero

\* A DLFUCache with a finite positive T.
Decaying(c) == IsDLFU(c) /\ c.T \notin {Zero, inf}

\* C29 as stated: in a DLFUCache with finite positive T, a get(j) takes the
\* reported count of every tracked key k # j from c to c / M, and that of the
\* accessed key j from c to (c + 1) / M (1 / M for a missed key that becomes
\* tracked), in the get that renormalises as in any other.
C29_GetDecaysEveryTracked ==
  [][Decaying(cache) =>
       \A j \in Keys :
         (cache'.get_count = cache.get_count + 1 /\ GetOp(j)) =>
           /\ \A k \in Tracked(cache) \ {j} :
                getcount(cache', k) = Div(getcount(cache, k), cache.M)
           /\ j \in Tracked(cache) \cup Tracked(cache') =>
                getcount(cache', j) = Div(Add(getcount(cache, j), One), cache.M)]_vars

\* C29 amended: the same for every key k # j that is tracked before and after
\* the get.  The one key that can leave is the shadow minimum, discarded to
\* make room for a missed j: its count reads 0 afterwards.
C29_GetDecaysTracked ==
  [][Decaying(cache) =>
       \A j \in Keys :
         (cache'.get_count = cache.get_count + 1 /\ GetOp(j)) =>
           /\ \A k \in (Tracked(cache) \cap Tracked(cache')) \ {j} :
                getcount(cache', k) = Div(getcount(cache, k), cache.M)
           /\ j \in Tracked(cache) \cup Tracked(cache') =>
                getcount(cache', j) = Div(Add(getcount(cache, j), One), cache.M)
           /\ \A k \in Tracked(cache) \ Tracked(cache') :
                /\ j \notin Tracked(cache)
                /\ PQ_len(cache.mqueue) = cache.msize
                /\ k = PQ_peekitem(cache.mqueue).key
                /\ getcount(cache', k) = Zero]_vars

\* A decaying DLFUCache after a renormalising get, with a key that was read
\* more than once and a shadow key: the reported counts differ from the
\* stored scores' history only by the powers of M.
C29_Witness ==
  /\ Decaying(cache)
  /\ cache.C = One
  /\ cache.get_count >= 2
  /\ cache.hit_count + cache.mhit_count >= 1
  /\ \E k \in Tracked(cache) : Gt(getcount(cache, k), Rat(1, 2))


\* ----------------------------------------------------------------- C30
\* The scores a queue holds, by key.
ScoreMap(pq) == [k \in PQ_keys(pq) |-> PQ_getitem(pq, k)]

\* A get of key k by a DLFUCache with T # 0 that tracks k in neither queue.
MissGet(k) ==
  /\ IsDLFU(cache)
  /\ Truthy(cache.T)
  /\ k \notin Tracked(cache)
  /\ cache'.get_count = cache.get_count + 1
  /\ GetOp(k)

\* The admission rule of a miss: the shadow queue has a free slot, or it is
\* full and C is not below its minimum score.
ShadowFree(c) == PQ_len(c.mqueue) < c.msize
Admits(c) ==
  \/ ShadowFree(c)
  \/ c.msize # 0 /\ Ge(c.C, PQ_peekitem(c.mqueue).value)

\* The factor by which the decay step that ends a get rescales every stored
\* score: C' / (C * M), which is 1 unless the get renormalises.
Rescale(c, d) == Div(d.C, Mul(c.C, c.M))

\* The effect of a miss on the queues when every stored score is multiplied
\* by the factor f in the same get.
MissEffect(k, f) ==
  LET old == ScoreMap(cache.mqueue)
      new == ScoreMap(cache'.mqueue)
      gone == DOMAIN old \ DOMAIN new
  IN  /\ ScoreMap(cache'.cqueue) =
           [j \in PQ_keys(cache.cqueue) |-> Mul(PQ_getitem(cache.cqueue, j), f)]
      /\ IF Admits(cache)
         THEN /\ k \in DOMAIN new
              /\ new[k] = Mul(cache.C, f)
              /\ DOMAIN new \ {k} \subseteq DOMAIN old
              /\ \A j \in DOMAIN new \ {k} : new[j] = Mul(old[j], f)
              /\ IF ShadowFree(cache)
                 THEN gone = {}
                 ELSE /\ Cardinality(gone) = 1
                      /\ \A j \in gone : \A i \in DOMAIN old : Le(old[j], old[i])
         ELSE /\ k \notin Tracked(cache')
              /\ DOMAIN new = DOMAIN old
              /\ \A j \in DOMAIN new : new[j] = Mul(old[j], f)

\* C30 as stated: in a DLFUCache with T # 0, a get(k) of a key in neither
\* queue leaves k in the shadow queue with score C (the C before the decay
\* step) exactly when the shadow queue has a free slot or C >= its minimum
\* score, discarding the minimum key in the latter case; otherwise k is not
\* tracked and no score in either queue has changed after the get.
C30_MissAdmissionVerbatim ==
  [][\A k \in Keys : MissGet(k) => MissEffect(k, One)]_vars

\* C30: in a DLFUCache with T # 0, a get(k) of a key in neither queue inserts
\* k into the shadow queue with score C (the C before the decay step) exactly
\* when the shadow queue has a free slot or C >= its minimum score, discarding
\* a key of minimum score in the latter case; otherwise (msize = 0 included)
\* k is not tracked and both queues keep their keys.  The decay step that ends
\* the same get multiplies every stored score, the one of k included, by
\* C' / (C * M): the scores are those above unless the get renormalises, and
\* divided by C * M if it does.
C30_MissAdmission ==
  [][\A k \in Keys : MissGet(k) => MissEffect(k, Rescale(cache, cache'))]_vars

\* A decaying cache with one shadow slot after misses only: the last miss
\* displaced the key of the miss before, and its get renormalised, so the
\* admitted key holds C / (C * M) = 1/2.
C30_Witness ==
  /\ Decaying(cache)
  /\ cache.msize = 1
  /\ cache.get_count >= 2
  /\ cache.hit_count + cache.mhit_count = 0
  /\ cache.C = One
  /\ \E k \in Keys : ScoreMap(cache.mqueue) = (k :> Rat(1, 2))

\* ----------------------------------------------------------------- C31
\* The keys of a score map that hold its lowest score.
Lowest(f) == {j \in DOMAIN f : \A i \in DOMAIN f : Le(f[j], f[i])}

\* The score with which set(k, .) offers k to the primary queue: the score k
\* has in shadow, or C for a key in neither queue (0.0 under T = 0).
Offered(c, k) ==
  IF PQ_contains(c.mqueue, k) THEN PQ_getitem(c.mqueue, k)
  ELSE IF Truthy(c.T) THEN c.C ELSE Zero

\* The effect of set(k, v), k not in primary, on a full primary queue.
FullSetEffect(k, v) ==
  LET pri == ScoreMap(cache.cqueue)
      sh == DictDel(ScoreMap(cache.mqueue), k)
      s == Offered(cache, k)
  IN  IF \E e \in Lowest(pri) : Lt(s, pri[e])
      THEN /\ cache'.cqueue = cache.cqueue
           /\ cache'.mqueue = cache.mqueue
           /\ cache'.data = cache.data
           /\ cache'.count_sum = cache.count_sum
           /\ cache'.count_sum2 = cache.count_sum2
           /\ cache'.mcount_sum = cache.mcount_sum
           /\ cache'.mcount_sum2 = cache.mcount_sum2
      ELSE \E e \in Lowest(pri) :
             /\ cache'.data = DictSet(DictDel(cache.data, e), k, v)
             /\ ScoreMap(cache'.cqueue) = DictSet(DictDel(pri, e), k, s)
             /\ IF Cardinality(DOMAIN sh) < cache.msize
                THEN ScoreMap(cache'.mqueue) = DictSet(sh, e, pri[e])
                ELSE IF \E d \in Lowest(sh) : Ge(pri[e], sh[d])
                THEN \E d \in Lowest(sh) :
                       ScoreMap(cache'.mqueue) = DictSet(DictDel(sh, d), e, pri[e])
                ELSE ScoreMap(cache'.mqueue) = sh

\* C31: in a DLFUCache, a set(k, v) of a key that is not in primary, with a
\* full primary queue, offers k with score s (its shadow score, or C for a new
\* key).  If s is below the lowest primary score the set is rejected: no
\* queue, no sum and no stored value changes.  Otherwise a key of lowest
\* primary score leaves primary and loses its stored value, k takes its place
\* with score s and value v, and the displaced key enters shadow with its
\* score unchanged if shadow has room or its score is >= the lowest shadow
\* score (a key of lowest shadow score is then discarded); else it is
\* discarded itself.  (A step that brings another key than k into primary is
\* not a set of k.)
C31_FullPrimaryAdmission ==
  [][(/\ IsDLFU(cache)
      /\ cache'.set_count = cache.set_count + 1
      /\ PQ_len(cache.cqueue) = cache.size) =>
       \A k \in Keys \ Primary(cache), v \in Vals :
         \/ Primary(cache') \ Primary(cache) \notin {{}, {k}}
         \/ FullSetEffect(k, v)
         \/ ~SetOp(k, v)]_vars

\* A one-slot DLFUCache with a shadow slot after two operations, both sets:
\* the second set displaced the key of the first into shadow.
C31_Witness ==
  /\ IsDLFU(cache)
  /\ cache.size = 1
  /\ steps = 2
  /\ cache.set_count = 2
  /\ Cardinality(Primary(cache)) = 1
  /\ Cardinality(Shadow(cache)) = 1

\* ----------------------------------------------------------------- C32
\* C32: in a DLFUCache a set(k, v) is never rejected, that is k is in primary
\* holding v afterwards, when T = 0, whatever operations came before, and for
\* any T when no get was performed since construction or the last clear();
\* as long as no get was performed C is 1, however many sets were made.
C32_SetNeverRejected ==
  /\ [](IsDLFU(cache) /\ cache.get_count = 0 => cache.C = One)
  /\ [][IsDLFU(cache) /\ (cache.T = Zero \/ cache.get_count = 0) =>
          \A k \in Keys, v \in Vals :
            cache'.set_count = cache.set_count + 1 =>
              \/ k \in Primary(cache') /\ k \in Stored(cache') /\ cache'.data[k] = v
              \/ ~SetOp(k, v)]_vars

\* A decaying one-slot DLFUCache after two operations, both sets, of two
\* keys: the second set found the queue full and was admitted.
C32_Witness ==
  /\ Decaying(cache)
  /\ cache.size = 1
  /\ steps = 2
  /\ cache.set_count = 2
  /\ cache.get_count = 0
  /\ cache.C = One
  /\ Shadow(cache) # {}
  /\ Primary(cache) # {}

\* ----------------------------------------------------------------- C33
\* The items of an OrderedDict other than the one of key k, in their order.
Others(od, k) == SelectSeq(od, LAMBDA item : item[1] # k)

\* The effect of get(k) on the lists of an ARCCache.
ARCGetEffect(k) ==
  LET value == IF OD_has(cache.t1, k) THEN OD_get(cache.t1, k) ELSE OD_get(cache.t2, k)
  IN  /\ cache'.p = cache.p
      /\ cache'.b1 = cache.b1
      /\ cache'.b2 = cache.b2
      /\ IF k \in Primary(cache)
         THEN /\ cache'.t1 = Others(cache.t1, k)
              /\ cache'.t2 = Append(Others(cache.t2, k), <<k, value>>)
              /\ getitem(cache, k).ret = RetValue(value)
         ELSE /\ cache'.t1 = cache.t1
              /\ cache'.t2 = cache.t2

\* C33: in an ARCCache, get(k) of a key in T1 or T2 takes it out of that list
\* and appends it, with its value, at the most recent end of T2, returns the
\* value, and leaves p, B1, B2 and the order of all other keys as they were;
\* get(k) of a key in B1, in B2 or in no list changes none of the four lists
\* nor p.
C33_ARCGet ==
  [][IsARC(cache) =>
       \A k \in KeysARC :
         cache'.get_count = cache.get_count + 1 =>
           \/ ARCGetEffect(k)
           \/ ~GetOp(k)]_vars

\* An ARCCache(2) after three operations, two sets and a get that hit: the
\* key read has moved from T1 to T2, the other key is still in T1.
C33_Witness ==
  /\ IsARC(cache)
  /\ steps = 3
  /\ cache.set_count = 2
  /\ cache.hit_count = 1
  /\ Len(cache.t1) = 1
  /\ Len(cache.t2) = 1

\* ----------------------------------------------------------------- C34
\* Runs of ARCCache(1) and ARCCache(2) of up to MaxOpsARC3 + 2 operations of
\* any kind, and runs of ARCCache(3) and ARCCache(4) that begin with a fixed
\* sequence of operations, its sets storing the value 1, and go on with up to
\* MaxOpsARC3 operations of any kind.  ARC3Script leaves ARCCache(3)
\* with p = 1, two keys in B1 and three in B2; ARC4Script leaves ARCCache(4)
\* full with p = 2, one key in T1, three in T2 and one in B2.
ARC3Script ==
  << <<"set", 1>>, <<"set", 2>>, <<"set", 3>>, <<"get", 1>>, <<"set", 4>>,
     <<"set", 2>>, <<"set", 5>>, <<"get", 4>>, <<"delete", 2>>,
     <<"delete", 4>>, <<"delete", 5>> >>
ARC4Script ==
  << <<"set", 1>>, <<"set", 2>>, <<"set", 3>>, <<"set", 4>>, <<"get", 1>>,
     <<"set", 5>>, <<"set", 2>>, <<"set", 3>>, <<"get", 4>> >>
MaxOpsARC3 == 3

InitARC3 == cache \in {ARC_init(size) : size \in {1, 2, 3, 4}} /\ NoHistory

\* The operation op on key k may be the next one of the run.
ARC3Next(op, k, v) ==
  LET script == IF cache.size = 3 THEN ARC3Script ELSE ARC4Script
  IN  IF cache.size < 3 THEN steps < MaxOpsARC3 + 2
      ELSE IF steps < Len(script) THEN script[steps + 1] = <<op, k>> /\ v = 1
      ELSE steps < Len(script) + MaxOpsARC3

ARC3Get(k) == ARC3Next("get", k, 1) /\ GetOp(k) /\ Stepped
ARC3Set(k, v) == ARC3Next("set", k, v) /\ SetOp(k, v) /\ Stepped
ARC3Delete(k) == ARC3Next("delete", k, 1) /\ DeleteOp(k) /\ Stepped

NextARC3 ==
  \/ \E k \in KeysARC : ARC3Get(k)
  \/ \E k \in KeysARC, v \in Vals : ARC3Set(k, v)
  \/ \E k \in KeysARC : ARC3Delete(k)

SpecARC3 == InitARC3 /\ [][NextARC3]_vars

\* The ghost keys of an ARCCache: in B1, or in B2, and in neither T1 nor T2.
Ghost1(a) == OD_keys(a.b1) \ Primary(a)
Ghost2(a) == (OD_keys(a.b2) \ OD_keys(a.b1)) \ Primary(a)

\* After set(k, v) of a ghost key, k is the most recent item of T2, holding
\* v, and is in no other list.
EndsInT2(k, v) ==
  /\ cache'.t2 # <<>>
  /\ cache'.t2[Len(cache'.t2)] = <<k, v>>
  /\ k \notin OD_keys(cache'.t1) \cup OD_keys(cache'.b1) \cup OD_keys(cache'.b2)

\* A step that changes p is the set of a ghost key.
OnlyGhostSetMovesP ==
  \/ cache'.p = cache.p
  \/ /\ cache'.set_count = cache.set_count + 1
     /\ \E k \in Ghost1(cache) \cup Ghost2(cache), v \in Vals : SetOp(k, v)

\* C34 as stated, |B2|/|B1| and |B1|/|B2| being the quotients of the list
\* lengths: a set of a B1 key moves p to min(size, p + max(|B2|/|B1|, 1)), a
\* set of a B2 key to max(0, p - max(|B1|/|B2|, 1)).  Both sides are
\* multiplied by the length of the divisor list.
C34_PUpdateQuotient ==
  [][IsARC(cache) /\ cache'.set_count = cache.set_count + 1 =>
       LET b1 == Len(cache.b1)
           b2 == Len(cache.b2)
       IN  /\ \A k \in Ghost1(cache), v \in Vals :
                \/ cache'.p * b1 = Min(cache.size * b1, cache.p * b1 + Max(b2, b1))
                \/ ~SetOp(k, v)
           /\ \A k \in Ghost2(cache), v \in Vals :
                \/ cache'.p * b2 = Max(0, cache.p * b2 - Max(b1, b2))
                \/ ~SetOp(k, v)]_vars

\* C34: in an ARCCache, set(k, v) of a key in B1 moves p to
\* min(size, p + max(|B2| div |B1|, 1)) and set(k, v) of a key in B2 moves p
\* to max(0, p - max(|B1| div |B2|, 1)), div being the integer quotient
\* rounded down and the lengths those before the key moves; in both cases k
\* ends as the most recent item of T2 holding v.  No other get, set or delete
\* changes p, and 0 <= p <= size in every reachable state.
C34_PUpdate ==
  /\ [](IsARC(cache) => 0 <= cache.p /\ cache.p <= cache.size)
  /\ [][IsARC(cache) =>
          /\ OnlyGhostSetMovesP
          /\ cache'.set_count = cache.set_count + 1 =>
               LET b1 == Len(cache.b1)
                   b2 == Len(cache.b2)
               IN  /\ \A k \in Ghost1(cache), v \in Vals :
                        \/ /\ cache'.p = Min(cache.size, cache.p + Max(b2 \div b1, 1))
                           /\ EndsInT2(k, v)
                        \/ ~SetOp(k, v)
                   /\ \A k \in Ghost2(cache), v \in Vals :
                        \/ /\ cache'.p = Max(0, cache.p - Max(b1 \div b2, 1))
                           /\ EndsInT2(k, v)
                        \/ ~SetOp(k, v)]_vars

\* The ARCCache(3) after the operations of ARC3Script and a set of key 3,
\* which was in B1 with |B1| = 2 and |B2| = 3: p went from 1 to 2.
C34_Witness ==
  /\ IsARC(cache)
  /\ cache.size = 3
  /\ steps = Len(ARC3Script) + 1
  /\ cache.p = 2
  /\ Len(cache.b1) = 1
  /\ Len(cache.b2) = 3
  /\ OD_keys(cache.t2) = {3}

\* ----------------------------------------------------------------- C35
\* The list the replace step of set(k, .) evicts from, p being the target it
\* runs with: none, T1 or T2.
Victim(a, k, p) ==
  IF Len(a.t1) + Len(a.t2) < a.size THEN "none"
  ELSE IF \/ Len(a.t1) > p
          \/ (Len(a.t1) = p /\ p > 0 /\ k \in OD_keys(a.b2))
          \/ a.t2 = <<>>
  THEN "t1"
  ELSE "t2"

\* What the rest of the set makes of a ghost list that the replace step left
\* as od: nothing, or it takes k out, or it drops the oldest key.
GhostAfter(od, k) == {od, Others(od, k)} \cup (IF od = <<>> THEN {} ELSE {Tail(od)})

\* The effect of the replace step within set(k, .), k being in neither T1 nor
\* T2: the lists T1 and T2 without k afterwards, and the ghost lists.
ReplaceEffect(k) ==
  LET a == cache
      which == Victim(a, k, cache'.p)
      from == IF which = "t1" THEN a.t1 ELSE a.t2
      e == from[1][1]
  IN  /\ which = "none" =>
           /\ Others(cache'.t1, k) = a.t1
           /\ Others(cache'.t2, k) = a.t2
           /\ cache'.b1 \in GhostAfter(a.b1, k)
           /\ cache'.b2 \in GhostAfter(a.b2, k)
      /\ which # "none" =>
           /\ from # <<>>
           /\ Primary(a) \ Primary(cache') = {e}
      /\ which = "t1" =>
           /\ Others(cache'.t1, k) = Tail(a.t1)
           /\ Others(cache'.t2, k) = a.t2
           /\ cache'.b1 \in GhostAfter(Append(a.b1, <<e, 0>>), k)
           /\ cache'.b2 \in GhostAfter(a.b2, k)
      /\ which = "t2" =>
           /\ Others(cache'.t1, k) = a.t1
           /\ Others(cache'.t2, k) = Tail(a.t2)
           /\ cache'.b1 \in GhostAfter(a.b1, k)
           /\ cache'.b2 \in GhostAfter(Append(a.b2, <<e, 0>>), k)

\* C35: in an ARCCache, the replace step of a set of a key k that is in
\* neither T1 nor T2 evicts nothing when |T1| + |T2| < size; otherwise it
\* evicts exactly one key: the oldest of T1, to the most recent end of B1,
\* when |T1| > p, or |T1| = p > 0 and k is in B2, or T2 is empty, and the
\* oldest of T2, to the most recent end of B2, in every other case.  The list
\* it evicts from is never empty.  (A step that brings another key than k
\* into T1 or T2 is not a set of k.)
C35_ReplaceRule ==
  [][IsARC(cache) /\ cache'.set_count = cache.set_count + 1 =>
       \A k \in KeysARC \ Primary(cache), v \in Vals :
         \/ ReplaceEffect(k)
         \/ Primary(cache') \ Primary(cache) \notin {{}, {k}}
         \/ ~SetOp(k, v)]_vars

\* The ARCCache(4) after the operations of ARC4Script and a set of key 1,
\* which was in B2: p went from 2 to 1 = |T1| with T2 not empty, so the key
\* of T1 was evicted to B1 and the three keys of T2 are still cached.
C35_Witness ==
  /\ IsARC(cache)
  /\ cache.size = 4
  /\ steps = Len(ARC4Script) + 1
  /\ cache.p = 1
  /\ cache.t1 = <<>>
  /\ OD_keys(cache.t2) = {1, 2, 3, 4}
  /\ OD_keys(cache.b1) = {5}


\* ------------------------------------------------------------------ C36
\* The effect of delete(k) on an ARCCache holding k in T1 or T2: k leaves its
\* list and becomes the most recent ghost of B1 (from T1) or of B2 (from T2),
\* without a value; nothing else changes, p and the counters included.
ARCDeleteEffect(k) ==
  LET a == cache
  IN  IF k \in OD_keys(a.t1)
      THEN cache' = [a EXCEPT !.t1 = Others(a.t1, k), !.b1 = Append(a.b1, <<k, 0>>)]
      ELSE cache' = [a EXCEPT !.t2 = Others(a.t2, k), !.b2 = Append(a.b2, <<k, 0>>)]

\* C36: in an ARCCache, delete(k) of a key in T1 moves it to the most recent
\* end of B1 and of a key in T2 to the most recent end of B2, dropping the
\* value; p is unchanged and k is then a ghost only, and a set(k, v) of a key
\* that is a ghost only is counted as a ghost hit and puts k at the most
\* recent end of T2.
C36_ARCDelete ==
  [][IsARC(cache) =>
       /\ \A k \in Primary(cache) :
            \/ /\ ARCDeleteEffect(k)
               /\ cache'.p = cache.p
               /\ k \in Shadow(cache') \ Primary(cache')
            \/ ~DeleteOp(k)
       /\ cache'.set_count = cache.set_count + 1 =>
            \A k \in Shadow(cache) \ Primary(cache), v \in Vals :
              \/ /\ cache'.mhit_count = cache.mhit_count + 1
                 /\ cache'.t2 # <<>>
                 /\ cache'.t2[Len(cache'.t2)] = <<k, v>>
                 /\ k \notin Shadow(cache')
              \/ ~SetOp(k, v)]_vars

\* The ARCCache(3) after the operations of ARC3Script, which end with three
\* deletes: nothing is cached, keys 5 and 4, deleted from T1 and from T2, are
\* the most recent ghosts of B1 and B2, and p is still 1.
C36_Witness ==
  /\ IsARC(cache) /\ cache.size = 3
  /\ steps = Len(ARC3Script)
  /\ cache.p = 1
  /\ Primary(cache) = {}
  /\ Len(cache.b1) = 2 /\ cache.b1[2] = <<5, 0>>
  /\ Len(cache.b2) = 3 /\ cache.b2[3] = <<4, 0>>


\* ------------------------------------------------------------------ C37
\* The keys in none of the four lists of an ARCCache.
Cold(a) == KeysARC \ (Primary(a) \cup Shadow(a))

\* The four lists <<T1, B1, T2, B2>> as the replace rule leaves them for a
\* cold key k.
Replaced(a, k) ==
  LET which == Victim(a, k, a.p)
  IN  IF which = "t1"
      THEN <<Tail(a.t1), Append(a.b1, <<a.t1[1][1], 0>>), a.t2, a.b2>>
      ELSE IF which = "t2"
      THEN <<a.t1, a.b1, Tail(a.t2), Append(a.b2, <<a.t2[1][1], 0>>)>>
      ELSE <<a.t1, a.b1, a.t2, a.b2>>

\* The ghost list a cold set of k drops the oldest key of.
Dropped(a, k) ==
  LET r == Replaced(a, k)
  IN  IF Len(r[1]) + Len(r[2]) = a.size THEN "b1"
      ELSE IF Len(r[1]) + Len(r[2]) + Len(r[3]) + Len(r[4]) = 2 * a.size THEN "b2"
      ELSE "none"

\* The effect of set(k, v) of a cold key k.
ColdSetEffect(k, v) ==
  LET a == cache
      r == Replaced(a, k)
      drop == Dropped(a, k)
  IN  /\ drop = "b1" => r[2] # <<>>
      /\ drop = "b2" => r[4] # <<>>
      /\ cache' = [a EXCEPT !.set_count = @ + 1,
                            !.t1 = Append(r[1], <<k, v>>),
                            !.b1 = IF drop = "b1" THEN Tail(r[2]) ELSE r[2],
                            !.t2 = r[3],
                            !.b2 = IF drop = "b2" THEN Tail(r[4]) ELSE r[4]]

\* A cold set does not fail.
ColdSetNeverFails ==
  IsARC(cache) =>
    \A k \in Cold(cache) : \A v \in Vals : ARC_setitem(cache, k, v).ret = RetNone

\* C37: in an ARCCache, set(k, v) of a key in none of the four lists applies
\* the replace rule, then drops the oldest key of B1 if |T1| + |B1| = size,
\* else the oldest key of B2 if the four lists hold 2 * size keys, then
\* appends k with v to the most recent end of T1; the ghost list it drops
\* from is never empty, so that in no reachable state a cold set fails.
C37_ColdSet ==
  /\ []ColdSetNeverFails
  /\ [][IsARC(cache) /\ cache'.set_count = cache.set_count + 1 =>
          \A k \in Cold(cache), v \in Vals :
            ColdSetEffect(k, v) \/ ~SetOp(k, v)]_vars

\* An ARCCache(1) after five operations, a key cached in T1 by the third set
\* and one ghost in B2: a cold set found T1 empty and a key in each of T2 and
\* B2, its replace step moved the key of T2 to B2, and B2, the four lists
\* then holding 2 keys with |T1| + |B1| = 0, lost its oldest key.
C37_Witness ==
  /\ IsARC(cache) /\ cache.size = 1
  /\ steps = 5 /\ cache.set_count = 3 /\ cache.hit_count = 2
  /\ Len(cache.t1) = 1 /\ cache.t2 = <<>>
  /\ cache.b1 = <<>> /\ Len(cache.b2) = 1


\* ------------------------------------------------------------------ C38
\* A PQueueLRU alone, beside a reference: lruAll holds the queued keys in the
\* order of their most recent set or swapitem, least recent first.  swapitem
\* is called with a key that is not queued or is the head's; what it does
\* with another queued key is the subject of C26.
KeysLQ == 1 .. 3
MaxOpsLRUQ == 4
BudgetLRUQ == steps < MaxOpsLRUQ
InitLRUQ == cache = LRU_init /\ NoHistory

\* One more operation, after which the reference order is l.
Recorded(l) ==
  /\ steps' = steps + 1
  /\ lruAll' = l
  /\ UNCHANGED <<lastSet, lruNew, inserted>>

LQSet(k, s) ==
  /\ BudgetLRUQ
  /\ cache' = PQ_setitem(cache, k, s)
  /\ Recorded(Append(Without(lruAll, k), k))
LQSwap(k, s) ==
  /\ BudgetLRUQ
  /\ cache.queue # <<>> => (~PQ_contains(cache, k) \/ PQ_peekitem(cache).key = k)
  /\ cache' = PQ_swap(cache, k, s).pq
  /\ Recorded(IF lruAll = <<>> THEN lruAll ELSE Append(Without(Tail(lruAll), k), k))
LQDelete(k) ==
  /\ BudgetLRUQ
  /\ cache' = PQ_delitem(cache, k).pq
  /\ Recorded(Without(lruAll, k))
LQPeek == BudgetLRUQ /\ cache' = PQ_peek(cache).pq /\ Recorded(lruAll)
LQPop ==
  /\ BudgetLRUQ
  /\ cache' = PQ_pop(cache).pq
  /\ Recorded(IF lruAll = <<>> THEN lruAll ELSE Tail(lruAll))
LQScale(m) == BudgetLRUQ /\ cache' = PQ_scale(cache, m) /\ Recorded(lruAll)

NextLRUQ ==
  \/ \E k \in KeysLQ, s \in Scores : LQSet(k, s)
  \/ \E k \in KeysLQ, s \in Scores : LQSwap(k, s)
  \/ \E k \in KeysLQ : LQDelete(k)
  \/ LQPeek
  \/ LQPop
  \/ \E m \in Factors : LQScale(m)

SpecLRUQ == InitLRUQ /\ [][NextLRUQ]_vars

\* The keys of the list from head to tail.
Order(pq) == [j \in DOMAIN pq.queue |-> pq.queue[j].k]
\* Every entry of the list is the one bound under its key.
Clean(pq) == \A j \in DOMAIN pq.queue : pq.queue[j].r = {pq.queue[j].k}
\* The score of every queued key other than k is in q2 what it is in q1.
SameScores(q1, q2, k) ==
  \A j \in PQ_keys(q1) \ {k} : PQ_getitem(q2, j) = PQ_getitem(q1, j)

\* set(k, s), on a new or a queued key: k is last, with score s, and the
\* other keys keep their order and scores.
LQSetAtTail ==
  \A k \in KeysLQ, s \in Scores :
    LET q == PQ_setitem(cache, k, s)
    IN  /\ Order(q) = Append(Without(Order(cache), k), k)
        /\ PQ_getitem(q, k) = s
        /\ SameScores(cache, q, k)
        /\ Clean(q)

\* swapitem(k, s) on a non-empty queue, k not queued or the head's key: the
\* head is returned and removed, k is last with score s.
LQSwapAtTail ==
  cache.queue # <<>> =>
    \A k \in (KeysLQ \ PQ_keys(cache)) \cup {cache.queue[1].k}, s \in Scores :
      LET res == PQ_swap(cache, k, s)
          old == cache.queue[1].k
      IN  /\ res.ret = RetItem(old, PQ_getitem(cache, old))
          /\ Order(res.pq) = Append(Without(Tail(Order(cache)), k), k)
          /\ PQ_getitem(res.pq, k) = s
          /\ SameScores(cache, res.pq, old)
          /\ Clean(res.pq)

\* peekitem() and popitem() on a non-empty queue return the head, which is
\* the least recently set key, with its score; popitem() removes it.
LQHeadIsOldest ==
  /\ Order(cache) = lruAll
  /\ Clean(cache)
  /\ cache.queue # <<>> =>
       LET old == lruAll[1]
       IN  /\ PQ_peek(cache).ret = RetItem(old, PQ_getitem(cache, old))
           /\ PQ_peek(cache).pq = cache
           /\ PQ_pop(cache).ret = RetItem(old, PQ_getitem(cache, old))
           /\ Order(PQ_pop(cache).pq) = Tail(lruAll)
           /\ SameScores(cache, PQ_pop(cache).pq, old)

ControlT(control) ==
  Div(Mul(Num(2), Add(Rat(11, 10), control)), Sub(Rat(11, 10), control))

\* C39: in an ADLFUCache, the update of T in a get only rebuilds
\* M = (T * size + 1) / (T * size): it changes neither C nor any stored
\* score, so that the count score / C of every key is after the update what
\* it was before; and a control output of 0 gives T = 8.
C39_SetTOnlyRebuildsM ==
  /\ \A T \in ADLFU_Ts(cache) :
       LET d == setT(cache, T)
       IN  /\ d.M = Div(Add(Mul(T, Num(cache.size)), One), Mul(T, Num(cache.size)))
           /\ d.cqueue = cache.cqueue
           /\ d.mqueue = cache.mqueue
           /\ d.C = cache.C
           /\ \A k \in Keys : getcount(d, k) = getcount(cache, k)
  /\ ControlT(Zero) = Num(8)

=============================================================================
